---------------------------- MODULE Spec2Model ----------------------------
(***************************************************************************)
(* Model of the Storm result-transformation engine of the Vertex Synapse   *)
(* Grafana datasource (pkg/plugin/plugin.go).                              *)
(*                                                                         *)
(*   Spec      one queryStorm call decoding a streaming response body      *)
(*   LiveSpec  the same, with the decode loop scheduled fairly             *)
(*   CallSpec  two queryStormCall calls running concurrently on one        *)
(*             Datasource instance                                         *)
(*   QueryDataSpec  one QueryData request of one or two queries, each      *)
(*             run through query() into queryStorm or queryStormCall       *)
(*   ClassifySpec, InjectSpec, NormalizeSpec, FlattenSpec                  *)
(*             detectFieldType, injectTimeRange, parseTimeValue and        *)
(*             flattenObject called on their own, on bounded inputs        *)
(***************************************************************************)
EXTENDS Integers, Sequences, FiniteSets, TLC

(***************************************************************************)
(* Decoded JSON values (Go interface{} after encoding/json): nil, bool,    *)
(* float64, string, []interface{}, map[string]interface{}.  A float64 is   *)
(* kept as its integer part n and the digits f after the decimal point     *)
(* ("" for an integral value).  Table cells reuse the same tagged records, *)
(* with the extra tags "time" (a time.Time instant) and "int".             *)
(***************************************************************************)
Null == [t |-> "null"]
Bool(b) == [t |-> "bool", b |-> b]
Num(n) == [t |-> "num", n |-> n, f |-> ""]
Frac(n, f) == [t |-> "num", n |-> n, f |-> f]
Str(s) == [t |-> "str", s |-> s]
List(l) == [t |-> "list", l |-> l]
Map(m) == [t |-> "map", m |-> m]
Time(sec, ns) == [t |-> "time", sec |-> sec, ns |-> ns]
\* A float64 that is a whole number beyond the int64 range, such as 1e19.
Big == [t |-> "big"]

IsNull(v) == v.t = "null"
IsBool(v) == v.t = "bool"
IsNum(v) == v.t = "num"
IsStr(v) == v.t = "str"
IsList(v) == v.t = "list"
IsMap(v) == v.t = "map"
IsBig(v) == v.t = "big"

\* m[k] of a Go map held in a Map value: the value and whether it exists.
HasKey(v, k) == IsMap(v) /\ k \in DOMAIN v.m
Keys(v) == DOMAIN v.m

(***************************************************************************)
(* Strings: the package strings functions the decoder uses.                *)
(***************************************************************************)
Upper == "ABCDEFGHIJKLMNOPQRSTUVWXYZ"
Lower == "abcdefghijklmnopqrstuvwxyz"
\* The bytes that occur in keys, in ASCII order (sort.Strings compares bytes).
Bytes == " ,-./0123456789:ABCDEFGHIJKLMNOPQRSTUVWXYZ_abcdefghijklmnopqrstuvwxyz"

CharAt(s, i) == SubSeq(s, i, i)
CharsOf(alphabet) == {CharAt(alphabet, i) : i \in 1..Len(alphabet)}
\* The place of each character in its alphabet.
PlaceIn(alphabet) ==
  [c \in CharsOf(alphabet) |-> CHOOSE i \in 1..Len(alphabet) : CharAt(alphabet, i) = c]
UpperPlace == PlaceIn(Upper)
BytePlace == PlaceIn(Bytes)

HasSuffix(s, suffix) ==
  /\ Len(s) >= Len(suffix)
  /\ SubSeq(s, Len(s) - Len(suffix) + 1, Len(s)) = suffix

Contains(s, substr) ==
  \E i \in 1..(Len(s) - Len(substr) + 1) : SubSeq(s, i, i + Len(substr) - 1) = substr

RECURSIVE ToLower(_)
ToLower(s) ==
  IF s = "" THEN ""
  ELSE LET c == CharAt(s, 1)
       IN (IF c \in DOMAIN UpperPlace THEN CharAt(Lower, UpperPlace[c]) ELSE c)
          \o ToLower(Tail(s))

\* a < b as Go compares strings: bytewise at the first place where they
\* differ, a proper prefix first.
StrLess(a, b) ==
  \/ Len(a) < Len(b) /\ SubSeq(b, 1, Len(a)) = a
  \/ \E i \in 1..Len(a) :
       /\ i <= Len(b)
       /\ SubSeq(a, 1, i - 1) = SubSeq(b, 1, i - 1)
       /\ BytePlace[CharAt(a, i)] < BytePlace[CharAt(b, i)]

\* sort.Strings over the keys of a set: each key stands after the keys that
\* are less than it.
SortStrings(S) ==
  [i \in 1..Cardinality(S) |->
     CHOOSE x \in S : Cardinality({y \in S : StrLess(y, x)}) = i - 1]

\* strings.Join(elems, sep)
RECURSIVE Join(_, _)
Join(elems, sep) ==
  IF Len(elems) = 0 THEN ""
  ELSE IF Len(elems) = 1 THEN elems[1]
  ELSE elems[1] \o sep \o Join(Tail(elems), sep)

(***************************************************************************)
(* fmt.Sprintf("%v", v).  A float64 prints as %g with the shortest digits: *)
(* decimal below 1e6, d.ddde+XX from 1e6 on (strconv's eprec = 6).         *)
(***************************************************************************)
Digits == "0123456789"
DigitPlace == PlaceIn(Digits)
IsDigit(c) == c \in DOMAIN DigitPlace
DigitVal(c) == DigitPlace[c] - 1

\* The digits without their trailing zeros, the first digit kept.
StripZeros(ds) ==
  IF Len(ds) <= 1 THEN ds
  ELSE SubSeq(ds, 1, CHOOSE n \in 1..Len(ds) :
                       /\ n = 1 \/ CharAt(ds, n) # "0"
                       /\ \A j \in (n + 1)..Len(ds) : CharAt(ds, j) = "0")

FormatExp(e) == IF e < 10 THEN "e+0" \o ToString(e) ELSE "e+" \o ToString(e)

\* strconv.FormatFloat(v, 'g', -1, 64) for v >= 0 and v = 0 or v >= 1e-4
FormatFloat(v) ==
  LET int == ToString(v.n)
      exp == Len(int) - 1
      ds == StripZeros(int \o v.f)
  IN IF exp >= 6
     THEN CharAt(ds, 1) \o (IF Len(ds) > 1 THEN "." \o Tail(ds) ELSE "") \o FormatExp(exp)
     ELSE IF v.f = "" THEN int ELSE int \o "." \o v.f

RECURSIVE Sprintf(_)
Sprintf(v) ==
  CASE IsNull(v) -> "<nil>"
    [] IsBool(v) -> IF v.b THEN "true" ELSE "false"
    [] IsStr(v) -> v.s
    [] IsNum(v) -> IF v.n < 0 THEN "-" \o FormatFloat([v EXCEPT !.n = 0 - v.n])
                   ELSE FormatFloat(v)
    [] IsList(v) -> "[" \o Join([i \in 1..Len(v.l) |-> Sprintf(v.l[i])], " ") \o "]"
    [] IsMap(v) ->
         LET ks == SortStrings(Keys(v))
         IN "map[" \o Join([i \in 1..Len(ks) |-> ks[i] \o ":" \o Sprintf(v.m[ks[i]])], " ")
            \o "]"

(***************************************************************************)
(* time.Parse for the two layouts parseTimeValue tries.  An instant is     *)
(* Time(sec, ns): seconds since the Unix epoch and nanoseconds within the  *)
(* second.                                                                 *)
(***************************************************************************)
\* The value of the decimal digits of s, or -1 when s is not all digits.
RECURSIVE Atoi(_)
Atoi(s) ==
  IF s = "" THEN 0
  ELSE LET hd == Atoi(SubSeq(s, 1, Len(s) - 1))
           c == CharAt(s, Len(s))
       IN IF hd < 0 \/ ~IsDigit(c) THEN -1 ELSE hd * 10 + DigitVal(c)

IsLeap(y) == y % 4 = 0 /\ (y % 100 # 0 \/ y % 400 = 0)
DaysIn(mo, y) ==
  IF mo = 2 THEN (IF IsLeap(y) THEN 29 ELSE 28)
  ELSE IF mo \in {4, 6, 9, 11} THEN 30 ELSE 31

\* Days from 1970-01-01 to y-mo-d.
DaysFromCivil(y, mo, d) ==
  LET yy == IF mo <= 2 THEN y - 1 ELSE y
      era == yy \div 400
      yoe == yy - era * 400
      mp == (mo + 9) % 12
      doy == (153 * mp + 2) \div 5 + d - 1
      doe == yoe * 365 + yoe \div 4 - yoe \div 100 + doy
  IN era * 146097 + doe - 719468

\* The leading run of digits of s.
RECURSIVE DigitRun(_)
DigitRun(s) ==
  IF s # "" /\ IsDigit(CharAt(s, 1)) THEN CharAt(s, 1) \o DigitRun(Tail(s)) ELSE ""

\* Fractional digits read as nanoseconds: the first nine, right-padded.
RECURSIVE PadNanos(_)
PadNanos(ds) ==
  IF Len(ds) >= 9 THEN Atoi(SubSeq(ds, 1, 9)) ELSE PadNanos(ds \o "0")

\* "2006-01-02T15:04:05" at the start of s: the calendar fields, or ok = FALSE.
ParseDateTime(s) ==
  IF /\ Len(s) >= 19
     /\ CharAt(s, 5) = "-" /\ CharAt(s, 8) = "-" /\ CharAt(s, 11) = "T"
     /\ CharAt(s, 14) = ":" /\ CharAt(s, 17) = ":"
  THEN LET y == Atoi(SubSeq(s, 1, 4))
           mo == Atoi(SubSeq(s, 6, 7))
           d == Atoi(SubSeq(s, 9, 10))
           h == Atoi(SubSeq(s, 12, 13))
           mi == Atoi(SubSeq(s, 15, 16))
           sc == Atoi(SubSeq(s, 18, 19))
           ok == /\ y >= 0 /\ mo \in 1..12 /\ d >= 1 /\ d <= DaysIn(mo, y)
                 /\ h \in 0..23 /\ mi \in 0..59 /\ sc \in 0..59
       IN [ok |-> ok,
           sec |-> IF ok THEN DaysFromCivil(y, mo, d) * 86400 + h * 3600 + mi * 60 + sc
                   ELSE 0]
  ELSE [ok |-> FALSE, sec |-> 0]

\* "Z07:00": Z, or a sign and hh:mm; the offset in seconds, or ok = FALSE.
ParseZone(z) ==
  IF z = "Z" THEN [ok |-> TRUE, off |-> 0]
  ELSE IF Len(z) = 6 /\ CharAt(z, 1) \in {"+", "-"} /\ CharAt(z, 4) = ":"
  THEN LET hh == Atoi(SubSeq(z, 2, 3))
           mm == Atoi(SubSeq(z, 5, 6))
           off == hh * 3600 + mm * 60
       IN [ok |-> hh \in 0..23 /\ mm \in 0..59,
           off |-> IF CharAt(z, 1) = "-" THEN 0 - off ELSE off]
  ELSE [ok |-> FALSE, off |-> 0]

\* time.Parse(time.RFC3339, s): Null on error.  Fractional seconds are
\* accepted after the seconds although the layout names none.
ParseRFC3339(s) ==
  LET dt == ParseDateTime(s)
      rest == IF Len(s) >= 19 THEN SubSeq(s, 20, Len(s)) ELSE ""
      hasFrac == Len(rest) >= 2 /\ CharAt(rest, 1) = "." /\ IsDigit(CharAt(rest, 2))
      frac == IF hasFrac THEN DigitRun(Tail(rest)) ELSE ""
      zone == IF hasFrac THEN SubSeq(rest, Len(frac) + 2, Len(rest)) ELSE rest
      z == ParseZone(zone)
  IN IF dt.ok /\ z.ok
     THEN Time(dt.sec - z.off, IF hasFrac THEN PadNanos(frac) ELSE 0)
     ELSE Null

\* time.Parse("2006-01-02T15:04:05.000Z", s): exactly three fractional
\* digits and a literal Z; the result is in UTC.
ParseMilliZ(s) ==
  LET dt == ParseDateTime(s)
  IN IF /\ dt.ok /\ Len(s) = 24 /\ CharAt(s, 20) = "." /\ CharAt(s, 24) = "Z"
        /\ Atoi(SubSeq(s, 21, 23)) >= 0
     THEN Time(dt.sec, PadNanos(SubSeq(s, 21, 23)))
     ELSE Null

\* parseTimeValue without its string case.
parseTimeValueNumbersOnly(val) ==
  IF IsNum(val) /\ (val.n > 1000000000 \/ (val.n = 1000000000 /\ val.f # ""))
  THEN Time(val.n \div 1000, (val.n % 1000) * 1000000)
  ELSE Null

\* Datasource.parseTimeValue: a float64 above 1e9 is read as milliseconds
\* (int64(v) drops the fraction); a string is tried as RFC 3339, then as
\* the millisecond layout; anything else is nil.  The numbers of the model
\* stay below 2^31, where int64(v)*1e6 does not wrap.
parseTimeValue(val) ==
  CASE IsNum(val) ->
         IF val.n > 1000000000 \/ (val.n = 1000000000 /\ val.f # "")
         THEN Time(val.n \div 1000, (val.n % 1000) * 1000000)
         ELSE Null
    [] IsStr(val) ->
         IF ParseRFC3339(val.s) # Null THEN ParseRFC3339(val.s)
         ELSE ParseMilliZ(val.s)
    [] OTHER -> Null

(***************************************************************************)
(* The streaming response bodies of the model.  An item of a body is one   *)
(* top-level JSON text as json.Decoder meets it:                           *)
(*   "value"      a complete JSON value v                                  *)
(*   "garbage"    text that is not JSON (a syntax error)                   *)
(*   "truncated"  a message cut short by the end of the body               *)
(***************************************************************************)
Item(v) == [k |-> "value", v |-> v]
Garbage == [k |-> "garbage", v |-> Null]
Truncated == [k |-> "truncated", v |-> Null]

Msg(tag, payload) == Item(List(<<Str(tag), payload>>))
NodeMsg(ndef, info) == Msg("node", List(<<ndef, info>>))

NodeFqdn ==
  NodeMsg(List(<<Str("inet:fqdn"), Str("example.com")>>),
          Map(("iden" :> Str("abc")) @@ ("props" :> Map("asn" :> Num(123)))))
NodeIPv4 ==
  NodeMsg(List(<<Str("inet:ipv4"), Num(16909060)>>),
          Map(("iden" :> Str("def"))
              @@ ("tags" :> Map(("foo" :> Null) @@ ("bar.baz" :> Null)))
              @@ ("props" :> Map(("asn" :> Num(456)) @@ ("seen" :> Num(1700000000))
                                 @@ ("LastSeen" :> Str("2024-01-01T00:00:00Z"))))
              @@ ("reprs" :> Map(("asn" :> Str("AS456"))
                                 @@ ("seen" :> Str("1970/01/20 16:13:20"))))))
NodeStr ==
  NodeMsg(List(<<Str("it:dev:str"), Str("x")>>),
          Map("props" :> Map(("seen" :> Str("never")) @@ (".created" :> Num(5)))))
NodeReprOnly ==
  NodeMsg(List(<<Str("it:host"), Str("h")>>),
          Map(("iden" :> Str("ghi")) @@ ("reprs" :> Map("updated" :> Str("2024/01/01 00:00:00")))))
NodeBadForm == NodeMsg(List(<<Num(1), Num(2)>>), Map("iden" :> Num(7)))
NodeBadInfo == NodeMsg(List(<<Str("a"), Str("b")>>), Str("x"))
NodeShort == Msg("node", List(<<Str("only")>>))
NodeNoList == Msg("node", Map("ndef" :> Null))
ErrMsg == Msg("err", List(<<Str("BadSyntax"), Str("unexpected token")>>))
ErrNoList == Msg("err", Str("boom"))
ErrBare == Item(List(<<Str("err")>>))
FiniMsg == Msg("fini", Map("count" :> Num(1)))
FiniBare == Item(List(<<Str("fini")>>))
PrintMsg == Msg("print", Map("mesg" :> Str("hi")))
NoTag == Item(List(<<Num(1), Num(2)>>))
NoArray == Item(Map("status" :> Str("ok")))

Items ==
  {NodeFqdn, NodeIPv4, NodeStr, NodeReprOnly, NodeBadForm, NodeBadInfo, NodeShort, NodeNoList,
   ErrMsg, ErrNoList, ErrBare, FiniMsg, FiniBare, PrintMsg, NoTag, NoArray,
   Garbage, Truncated}

\* The most items in a response body.
MaxMsgs == 3

\* A message can be cut short only by the end of the body.
Bodies ==
  {b \in UNION {[1..n -> Items] : n \in 0..MaxMsgs} :
     \A i \in 1..Len(b) : b[i] = Truncated => i = Len(b)}

(***************************************************************************)
(* queryStorm: the node parsed from one "node" message.  nodeData is       *)
(* msg[1]; tagList is the order in which the range over the tags map       *)
(* happened to yield the tag names.                                        *)
(***************************************************************************)
EmptyMap == [k \in {} |-> Null]

\* v.(map[string]interface{})[k].(map[string]interface{}), or the empty map
SubMap(v, k) ==
  IF HasKey(v, k) /\ IsMap(v.m[k]) THEN v.m[k].m ELSE EmptyMap

\* v.(map[string]interface{})[k].(string), or ""
SubString(v, k) ==
  IF HasKey(v, k) /\ IsStr(v.m[k]) THEN v.m[k].s ELSE ""

\* nodeDef, ok := nodeData[0].([]interface{}); ok && len(nodeDef) >= 2, and
\* form, ok := nodeDef[0].(string)
HasNodeDef(nodeData) ==
  /\ IsList(nodeData.l[1])
  /\ Len(nodeData.l[1].l) >= 2
  /\ IsStr(nodeData.l[1].l[1])

Perms(S) ==
  {f \in [1..Cardinality(S) -> S] : \A i, j \in 1..Cardinality(S) : f[i] = f[j] => i = j}

\* The orders a range over the tags map can produce.
TagOrders(nodeData) == Perms(DOMAIN SubMap(nodeData.l[2], "tags"))

\* k + "_repr" for the keys of reprs, each holding reprs[k]
ReprProps(reprs) ==
  [rk \in {k \o "_repr" : k \in DOMAIN reprs} |-> reprs[SubSeq(rk, 1, Len(rk) - 5)]]

\* node.Props: props first, then the reprs entries written over them
NodeProps(nodeProps) ==
  ReprProps(SubMap(nodeProps, "reprs")) @@ SubMap(nodeProps, "props")

NodeRecord(nodeData, tagList) ==
  [Form |-> IF HasNodeDef(nodeData) THEN nodeData.l[1].l[1].s ELSE "",
   Value |-> IF HasNodeDef(nodeData) THEN Sprintf(nodeData.l[1].l[2]) ELSE "",
   Iden |-> SubString(nodeData.l[2], "iden"),
   Tags |-> Join(tagList, ", "),
   Props |-> NodeProps(nodeData.l[2])]

(***************************************************************************)
(* queryStorm: the data frame built from the collected nodes.  A field is  *)
(* its name, the Go type of its vector and its cells.                      *)
(***************************************************************************)
Field(name, type, values) == [Name |-> name, Type |-> type, Values |-> values]

TimeIndicators ==
  {"created", "seen", "time", "modified", "updated", "accessed", "published",
   "date", "timestamp"}

\* A variant of isTimeField that looks for the indicators in the key as it is
\* spelled, without lower-casing it.
isTimeFieldCaseSensitive(propKey) ==
  \E ind \in {"created", "seen", "time", "modified", "updated", "accessed",
              "published", "date", "timestamp"} : Contains(propKey, ind)

\* isTimeField of the column loop: the indicators are looked for in the
\* lower-cased key.
isTimeField(propKey) ==
  LET lowerKey == ToLower(propKey)
  IN \E ind \in TimeIndicators : Contains(lowerKey, ind)

\* A variant of skipsRepr that skips every _repr key.
skipsEveryRepr(propKey) == HasSuffix(propKey, "_repr")

\* The _repr keys the column loop skips.
skipsRepr(propKey) == HasSuffix(propKey, "_repr") /\ isTimeField(propKey)

\* The []*time.Time column of a time property.
timeValues(propKey, nodes) ==
  [i \in 1..Len(nodes) |->
     IF propKey \in DOMAIN nodes[i].Props
     THEN parseTimeValue(nodes[i].Props[propKey])
     ELSE Null]

\* A variant of propValues that keeps the values as they were decoded.
propValuesUnrendered(propKey, nodes) ==
  [i \in 1..Len(nodes) |->
     IF propKey \in DOMAIN nodes[i].Props THEN nodes[i].Props[propKey] ELSE Str("")]

\* The []string column of any other property.
propValues(propKey, nodes) ==
  [i \in 1..Len(nodes) |->
     IF propKey \in DOMAIN nodes[i].Props
     THEN Str(Sprintf(nodes[i].Props[propKey]))
     ELSE Str("")]

propField(propKey, nodes) ==
  IF isTimeField(propKey) /\ ~HasSuffix(propKey, "_repr")
  THEN Field(propKey, "time", timeValues(propKey, nodes))
  ELSE Field(propKey, "string", propValues(propKey, nodes))

\* A variant of baseFields that puts iden first.
baseFieldsIdenFirst(nodes) ==
  <<Field("iden", "string", [i \in 1..Len(nodes) |-> Str(nodes[i].Iden)]),
    Field("form", "string", [i \in 1..Len(nodes) |-> Str(nodes[i].Form)]),
    Field("value", "string", [i \in 1..Len(nodes) |-> Str(nodes[i].Value)]),
    Field("tags", "string", [i \in 1..Len(nodes) |-> Str(nodes[i].Tags)])>>

\* The four base columns.
baseFields(nodes) ==
  <<Field("form", "string", [i \in 1..Len(nodes) |-> Str(nodes[i].Form)]),
    Field("value", "string", [i \in 1..Len(nodes) |-> Str(nodes[i].Value)]),
    Field("iden", "string", [i \in 1..Len(nodes) |-> Str(nodes[i].Iden)]),
    Field("tags", "string", [i \in 1..Len(nodes) |-> Str(nodes[i].Tags)])>>

\* A variant of sortedPropKeys that sorts in descending order.
descendingPropKeys(keys) ==
  LET sorted == SortStrings(keys)
  IN [i \in 1..Len(sorted) |-> sorted[Len(sorted) + 1 - i]]

\* propKeys: the keys of allPropKeys, sorted
sortedPropKeys(keys) == SortStrings(keys)

propFields(nodes, keys) ==
  LET propKeys == SelectSeq(sortedPropKeys(keys), LAMBDA k : ~skipsRepr(k))
  IN [i \in 1..Len(propKeys) |-> propField(propKeys[i], nodes)]

stormFrame(nodes, keys, refID) ==
  [Name |-> "storm",
   RefID |-> refID,
   Fields |-> IF Len(nodes) > 0 THEN baseFields(nodes) \o propFields(nodes, keys)
              ELSE << >>]

(***************************************************************************)
(* The call-result decoder (queryStormCall and the parse functions).       *)
(***************************************************************************)
\* json.Marshal(v): the compact text.  A float64 prints in decimal (the
\* exponent form starts at 1e21); the strings of the model hold no
\* character that is escaped.
RECURSIVE Marshal(_)
Marshal(v) ==
  CASE IsNull(v) -> "null"
    [] IsBool(v) -> IF v.b THEN "true" ELSE "false"
    [] IsNum(v) -> IF v.f = "" THEN ToString(v.n) ELSE ToString(v.n) \o "." \o v.f
    [] IsStr(v) -> "\"" \o v.s \o "\""
    [] IsList(v) -> "[" \o Join([i \in 1..Len(v.l) |-> Marshal(v.l[i])], ",") \o "]"
    [] IsMap(v) ->
         LET ks == SortStrings(Keys(v))
         IN "{" \o Join([i \in 1..Len(ks) |->
                           "\"" \o ks[i] \o "\":" \o Marshal(v.m[ks[i]])], ",")
            \o "}"

\* Datasource.valueToString
valueToString(val) ==
  IF IsMap(val) \/ IsList(val) THEN Marshal(val) ELSE Sprintf(val)

\* flattenObject: the (key, value) entries it writes into result, nested
\* mappings expanded under their dotted prefix.
RECURSIVE flattenEntries(_, _)
flattenEntries(obj, prefix) ==
  UNION {LET newKey == IF prefix # "" THEN prefix \o "." \o key ELSE key
             val == obj[key]
         IN CASE IsMap(val) -> flattenEntries(val.m, newKey)
              [] IsList(val) -> {<<newKey, Str(Marshal(val))>>}
              [] IsNum(val) \/ IsBool(val) \/ IsNull(val) -> {<<newKey, val>>}
              [] OTHER -> {<<newKey, Str(Sprintf(val))>>}
         : key \in DOMAIN obj}

\* flattenObject with the prefix left out of the keys.
flattenObjectNoPrefix(obj, prefix) ==
  LET entries == flattenEntries(obj, "")
      keys == {e[1] : e \in entries}
  IN {result \in [keys -> {e[2] : e \in entries}] :
        \A k \in keys : <<k, result[k]>> \in entries}

\* Datasource.flattenObject: the maps it can return.  Two entries with the
\* same composed key overwrite each other in the order the range over the
\* map yields them, which Go leaves unspecified.
flattenObject(obj, prefix) ==
  LET entries == flattenEntries(obj, prefix)
      keys == {e[1] : e \in entries}
  IN {result \in [keys -> {e[2] : e \in entries}] :
        \A k \in keys : <<k, result[k]>> \in entries}

\* strconv.ParseFloat(s, 64) for plain decimal text: an optional sign,
\* digits, and an optional point with digits.  ok = FALSE on error; the
\* value is n + 0.f with the trailing zeros of f dropped.
ParseFloat(s) ==
  LET neg == s # "" /\ CharAt(s, 1) = "-"
      unsigned == IF s # "" /\ CharAt(s, 1) \in {"-", "+"} THEN Tail(s) ELSE s
      int == DigitRun(unsigned)
      rest == SubSeq(unsigned, Len(int) + 1, Len(unsigned))
      frac == IF rest # "" /\ CharAt(rest, 1) = "." THEN DigitRun(Tail(rest)) ELSE ""
      ok == /\ Len(int) + Len(frac) > 0
            /\ Len(int) <= 9
            /\ rest = "" \/ rest = "." \o frac
      f == IF StripZeros(frac) = "0" THEN "" ELSE StripZeros(frac)
      n == IF ok THEN Atoi(int) ELSE 0
  IN [ok |-> ok, n |-> IF neg THEN 0 - n ELSE n, f |-> f]

\* strconv.ParseInt(s, 10, 64): an optional sign and digits only.
ParseInt(s) ==
  LET neg == s # "" /\ CharAt(s, 1) = "-"
      unsigned == IF s # "" /\ CharAt(s, 1) \in {"-", "+"} THEN Tail(s) ELSE s
      ok == unsigned # "" /\ Len(unsigned) <= 9 /\ DigitRun(unsigned) = unsigned
      n == IF ok THEN Atoi(unsigned) ELSE 0
  IN [ok |-> ok, n |-> IF neg THEN 0 - n ELSE n]

\* A variant of detectFieldType that returns bool whenever a boolean is
\* present among values that are all booleans, numbers or nil.
detectFieldTypeBoolFirst(values) ==
  LET idx == 1..Len(values)
      numeric(v) == IsNum(v) \/ IsBig(v) \/ (IsStr(v) /\ ParseFloat(v.s).ok)
      fraction(v) == IF IsNum(v) THEN v.f ELSE IF IsBig(v) THEN "big" ELSE ParseFloat(v.s).f
  IN IF \E i \in idx : ~IsNull(values[i]) /\ ~IsBool(values[i]) /\ ~numeric(values[i])
     THEN "string"
     ELSE IF \E i \in idx : IsBool(values[i]) THEN "bool"
     ELSE IF \E i \in idx : numeric(values[i]) /\ fraction(values[i]) # "" THEN "float"
     ELSE IF \E i \in idx : numeric(values[i]) THEN "int"
     ELSE "string"

\* Datasource.detectFieldType.  v == float64(int64(v)) is false for a whole
\* number beyond the int64 range: the conversion gives the least or the
\* greatest int64, by the platform, and never the number itself.
detectFieldType(values) ==
  LET idx == 1..Len(values)
      numeric(v) == IsNum(v) \/ IsBig(v) \/ (IsStr(v) /\ ParseFloat(v.s).ok)
      whole(v) == CASE IsNum(v) -> v.f = ""
                    [] IsBig(v) -> FALSE
                    [] OTHER -> ParseFloat(v.s).f = ""
      hasFloat == \E i \in idx : numeric(values[i]) /\ ~whole(values[i])
      hasInt == \E i \in idx : numeric(values[i]) /\ whole(values[i])
      hasBool == \E i \in idx : IsBool(values[i])
      hasOther == \E i \in idx : /\ ~IsNull(values[i]) /\ ~IsBool(values[i])
                                 /\ ~numeric(values[i])
  IN IF Len(values) = 0 THEN "string"
     ELSE IF hasOther THEN "string"
     ELSE IF hasBool /\ ~hasInt /\ ~hasFloat THEN "bool"
     ELSE IF hasFloat THEN "float"
     ELSE IF hasInt THEN "int"
     ELSE "string"

IntCell(i) == [t |-> "int", i |-> i]

\* A cell of a []*float64 column.
floatCell(val) ==
  CASE IsNum(val) -> val
    [] IsStr(val) /\ ParseFloat(val.s).ok -> Frac(ParseFloat(val.s).n, ParseFloat(val.s).f)
    [] OTHER -> Null

\* A cell of a []*int64 column: int64(v) of a float64, ParseInt of a string.
intCell(val) ==
  CASE IsNum(val) -> IntCell(val.n)
    [] IsStr(val) /\ ParseInt(val.s).ok -> IntCell(ParseInt(val.s).n)
    [] OTHER -> Null

boolCell(val) == IF IsBool(val) THEN val ELSE Null

\* A variant of stringCell for a nullable string column.
stringCellNullable(val) == IF IsNull(val) THEN Null ELSE Str(Sprintf(val))

stringCell(val) == IF IsNull(val) THEN Str("") ELSE Str(Sprintf(val))

\* The column emitted for the detected type.
typedField(name, fieldType, values) ==
  CASE fieldType = "float" -> Field(name, "float", [i \in 1..Len(values) |-> floatCell(values[i])])
    [] fieldType = "int" -> Field(name, "int", [i \in 1..Len(values) |-> intCell(values[i])])
    [] fieldType = "bool" -> Field(name, "bool", [i \in 1..Len(values) |-> boolCell(values[i])])
    [] OTHER -> Field(name, "string", [i \in 1..Len(values) |-> stringCell(values[i])])

CallFrame(fields, refID) == [Name |-> "storm_call", RefID |-> refID, Fields |-> fields]

\* parseObjectList, "Populate field values": the row of each element that
\* is a mapping, as the map the keys are looked up in.  With flatten it is
\* one of the maps flattenObject can return; without, nested structures are
\* replaced by their JSON text.
objectRows(items, shouldFlatten) ==
  LET objs == SelectSeq(items, IsMap)
      plain(obj) ==
        [k \in DOMAIN obj |->
           IF IsMap(obj[k]) \/ IsList(obj[k]) THEN Str(valueToString(obj[k])) ELSE obj[k]]
  IN IF shouldFlatten
     THEN {rows \in [1..Len(objs) -> UNION {flattenObject(objs[j].m, "") : j \in 1..Len(objs)}] :
             \A j \in 1..Len(objs) : rows[j] \in flattenObject(objs[j].m, "")}
     ELSE {[j \in 1..Len(objs) |-> plain(objs[j].m)]}

\* parseObjectList, "Add fields to frame with type detection": one column.
objectFieldAllNormalize(key, values) ==
  LET fieldType == detectFieldType(values)
      timeCells == [i \in 1..Len(values) |-> parseTimeValue(values[i])]
  IN IF /\ isTimeField(key) /\ fieldType \in {"float", "int"}
        /\ \A i \in 1..Len(values) : timeCells[i] # Null
     THEN Field(key, "time", timeCells)
     ELSE typedField(key, fieldType, values)

objectFieldTimeByName(key, values) ==
  LET timeCells == [i \in 1..Len(values) |-> parseTimeValue(values[i])]
  IN IF isTimeField(key) /\ (\E i \in 1..Len(values) : timeCells[i] # Null)
     THEN Field(key, "time", timeCells)
     ELSE typedField(key, detectFieldType(values), values)

objectField(key, values) ==
  LET fieldType == detectFieldType(values)
      timeCells == [i \in 1..Len(values) |-> parseTimeValue(values[i])]
      hasTimeValues == \E i \in 1..Len(values) : timeCells[i] # Null
  IN IF isTimeField(key) /\ fieldType \in {"float", "int"} /\ hasTimeValues
     THEN Field(key, "time", timeCells)
     ELSE typedField(key, fieldType, values)

objectFields(rows) ==
  LET keys == SortStrings(UNION {DOMAIN rows[j] : j \in 1..Len(rows)})
      column(key) ==
        [j \in 1..Len(rows) |-> IF key \in DOMAIN rows[j] THEN rows[j][key] ELSE Null]
  IN [c \in 1..Len(keys) |-> objectField(keys[c], column(keys[c]))]

\* Datasource.parseObjectList, with the flatten option it read from
\* d.queryModel: the frames it can return.
parseObjectList(items, shouldFlatten, refID) ==
  IF Len(items) = 0 THEN {CallFrame(<< >>, refID)}
  ELSE {CallFrame(objectFields(rows), refID) : rows \in objectRows(items, shouldFlatten)}

\* An element of a node list that is a list of at least two elements.
IsNodeData(itm) == IsList(itm) /\ Len(itm.l) >= 2

\* isNodeList
isNodeList(items) == Len(items) > 0 /\ IsNodeData(items[1]) /\ HasNodeDef(items[1])

\* parseNodeList: forms and values grow with every element that has a
\* [form, value] pair, idens and tags with every element whose second entry
\* is a mapping.  orders[i] is the order the range over the tags of element i
\* yields.
nodeListFields(items, orders) ==
  LET idx == 1..Len(items)
      withDef == SelectSeq([i \in idx |-> i],
                           LAMBDA i : IsNodeData(items[i]) /\ HasNodeDef(items[i]))
      withProps == SelectSeq([i \in idx |-> i],
                             LAMBDA i : IsNodeData(items[i]) /\ IsMap(items[i].l[2]))
      forms == [j \in 1..Len(withDef) |-> Str(items[withDef[j]].l[1].l[1].s)]
      values == [j \in 1..Len(withDef) |-> Str(Sprintf(items[withDef[j]].l[1].l[2]))]
      idens == [j \in 1..Len(withProps) |-> Str(SubString(items[withProps[j]].l[2], "iden"))]
      tags == [j \in 1..Len(withProps) |-> Str(Join(orders[withProps[j]], ", "))]
  IN IF Len(forms) > 0
     THEN <<Field("form", "string", forms), Field("value", "string", values),
            Field("iden", "string", idens), Field("tags", "string", tags)>>
     ELSE << >>

nodeTagOrders(itm) ==
  IF IsNodeData(itm) THEN TagOrders(itm) ELSE {<< >>}

parseNodeList(items, refID) ==
  {CallFrame(nodeListFields(items, orders), refID) :
     orders \in {o \in [1..Len(items) -> UNION {nodeTagOrders(items[i]) : i \in 1..Len(items)}] :
                   \A i \in 1..Len(items) : o[i] \in nodeTagOrders(items[i])}}

\* parsePrimitiveList emitting a time column as soon as one element is a
\* timestamp.
parsePrimitiveListAnyTime(items, refID) ==
  IF \E i \in 1..Len(items) : parseTimeValue(items[i]) # Null
  THEN CallFrame(<<Field("value", "time",
                         [i \in 1..Len(items) |-> parseTimeValue(items[i])])>>, refID)
  ELSE CallFrame(<<Field("value", "string",
                         [i \in 1..Len(items) |-> Str(Sprintf(items[i]))])>>, refID)

\* Datasource.parsePrimitiveList
parsePrimitiveList(items, refID) ==
  LET allTimestamps == \A i \in 1..Len(items) : parseTimeValue(items[i]) # Null
  IN IF allTimestamps /\ Len(items) > 0
     THEN CallFrame(<<Field("value", "time",
                            [i \in 1..Len(items) |-> parseTimeValue(items[i])])>>, refID)
     ELSE CallFrame(<<Field("value", "string",
                            [i \in 1..Len(items) |-> Str(Sprintf(items[i]))])>>, refID)

\* Datasource.parseListOfLists
parseListOfLists(items, refID) ==
  CallFrame(<<Field("value", "string", [i \in 1..Len(items) |-> Str(Marshal(items[i]))])>>,
            refID)

\* parseStormCallResult, case map[string]interface{}: the key/value table
keyValueFrame(obj, refID) ==
  LET sortedKeys == SortStrings(DOMAIN obj)
      values == [i \in 1..Len(sortedKeys) |-> obj[sortedKeys[i]]]
  IN CallFrame(<<Field("key", "string", [i \in 1..Len(sortedKeys) |-> Str(sortedKeys[i])]),
                 typedField("value", detectFieldType(values), values)>>, refID)

\* Datasource.parseStormCallResult: the frames it can return.
parseStormCallResult(result, shouldFlatten, refID) ==
  CASE IsList(result) ->
         IF Len(result.l) = 0
         THEN {CallFrame(<<Field("result", "string", << >>)>>, refID)}
         ELSE IF IsMap(result.l[1]) THEN parseObjectList(result.l, shouldFlatten, refID)
         ELSE IF IsList(result.l[1])
         THEN (IF isNodeList(result.l) THEN parseNodeList(result.l, refID)
               ELSE {parseListOfLists(result.l, refID)})
         ELSE {parsePrimitiveList(result.l, refID)}
    [] IsMap(result) -> {keyValueFrame(result.m, refID)}
    [] OTHER -> {CallFrame(<<Field("result", "string", <<Str(Sprintf(result))>>)>>, refID)}

\* queryStormCall, "Extract the actual result from the response": the value
\* handed to parseStormCallResult.
responseResult(response) ==
  IF /\ HasKey(response, "status") /\ response.m["status"] = Str("ok")
     /\ HasKey(response, "result")
  THEN response.m["result"]
  ELSE response

(***************************************************************************)
(* State: one queryStorm call, and the Datasource instance with the        *)
(* queryStormCall calls running on it.                                     *)
(***************************************************************************)
VARIABLES
  body,         \* the response body: a sequence of items
  pos,          \* the items the json.Decoder has consumed
  decErr,       \* the error the Decoder keeps (dec.err), "" when none
  warned,       \* parity of the "Error decoding storm message" warnings logged
  pc,           \* "start", "open" (in the decode loop), "done", "failed"
  nodes,        \* the NodeRecords collected
  allPropKeys,  \* the property keys seen
  frames,       \* the data.Frames returned, << >> while there are none
  err,          \* the error returned, "" while there is none
  queryModel,   \* d.queryModel: the call whose QueryModel it points to, or NoCall
  qm,           \* per call: the Opts of its QueryModel
  cpc,          \* per call: "start", "request", "parse", "done", "failed"
  response,     \* per call: the response document received
  callFrames,   \* per call: the data.Frames returned, << >> while there are none
  callErr,      \* per call: the error returned, "" while there is none
  fn,           \* the function called on its own, NoFn when none is
  args,         \* its arguments
  ret,          \* NoReturn, or the value v it returned
  queries,      \* req.Queries of the QueryData call, << >> when there is none
  qi,           \* the index in req.Queries the loop of QueryData is at
  qpc,          \* "idle", "loop" (between two queries), "run" (in queryStorm
                \* or queryStormCall), "returned"
  Responses,    \* response.Responses: RefID to DataResponse
  injected,     \* the indexes of the queries injectTimeRange was called for
  sent,         \* the indexes of the queries that made a request and returned
  answers       \* per query that returned: what the remote store answered

streamVars == <<body, pos, decErr, warned, pc, nodes, allPropKeys, frames, err>>
callVars == <<queryModel, qm, cpc, response, callFrames, callErr>>
fnVars == <<fn, args, ret>>
reqVars == <<queries, qi, qpc, Responses, injected, sent, answers>>
vars == <<streamVars, callVars, fnVars, reqVars>>

NoFn == "none"
NoReturn == [t |-> "pending"]
\* No function is called on its own.
FnIdle == fn = NoFn /\ args = << >> /\ ret = NoReturn
\* QueryData is not called.
ReqIdle ==
  /\ queries = << >> /\ qi = 1 /\ qpc = "idle"
  /\ Responses = << >> /\ injected = {} /\ sent = {} /\ answers = << >>

\* The queryStormCall calls in flight, named by their RefID.
Calls == {"A", "B"}
NoCall == "nil"

\* No call is made.
CallsIdle ==
  /\ queryModel = NoCall
  /\ qm = [c \in Calls |-> Map(EmptyMap)]
  /\ cpc = [c \in Calls |-> "start"]
  /\ response = [c \in Calls |-> Null]
  /\ callFrames = [c \in Calls |-> << >>]
  /\ callErr = [c \in Calls |-> ""]

\* No streaming query is made.
StreamIdle ==
  /\ body = << >>
  /\ pos = 0
  /\ decErr = ""
  /\ warned = FALSE
  /\ pc = "start"
  /\ nodes = << >>
  /\ allPropKeys = {}
  /\ frames = << >>
  /\ err = ""

\* query.RefID: that of the query QueryData is running, "A" for a queryStorm
\* call on its own.
RefID == IF qpc = "run" THEN queries[qi].RefID ELSE "A"

\* No request has been made.
Init == StreamIdle /\ CallsIdle /\ FnIdle /\ ReqIdle

\* The HTTP status codes the remote store answers with.
StatusCodes == {200, 500}

\* d.httpClient.Do(req) and the status check; resp.Body is the body that the
\* decoder will read.
SendRequestOf(bodies) ==
  /\ pc = "start"
  /\ \E status \in StatusCodes :
       IF status = 200
       THEN /\ pc' = "open"
            /\ err' = err
            /\ body' \in bodies
       ELSE /\ pc' = "failed"
            /\ err' = "storm query failed with status: " \o ToString(status)
            /\ body' = body
  /\ UNCHANGED <<pos, decErr, warned, nodes, allPropKeys, frames>>
  /\ UNCHANGED <<callVars, fnVars, reqVars>>
SendRequest == SendRequestOf(Bodies)

\* The item decoder.Decode(&msg) reads next.
AtItem == pc = "open" /\ decErr = "" /\ pos < Len(body)
item == body[pos + 1]
\* The item decodes into a StormMessage without an error.
Decodes(it) == it.k = "value" /\ (IsList(it.v) \/ IsNull(it.v))
msgOf(it) == IF IsList(it.v) THEN it.v.l ELSE << >>
\* len(msg) >= 2 and msg[0] is the string tag
HasTag(it, tag) ==
  /\ Decodes(it)
  /\ Len(msgOf(it)) >= 2
  /\ msgOf(it)[1] = Str(tag)
\* msg[1].([]interface{}) with len >= 2
HasPayload(it) == IsList(msgOf(it)[2]) /\ Len(msgOf(it)[2].l) >= 2

\* label done: build the frame and return it.
Finish ==
  /\ pc' = "done"
  /\ frames' = <<stormFrame(nodes, allPropKeys, RefID)>>
  /\ err' = ""

\* Decode returns io.EOF at the end of the body: break.
DecodeEOF ==
  /\ pc = "open" /\ decErr = "" /\ pos = Len(body)
  /\ Finish
  /\ UNCHANGED <<body, pos, decErr, warned, nodes, allPropKeys>>
  /\ UNCHANGED <<callVars, fnVars, reqVars>>

\* Decode meets text that is not JSON, or the body ends inside a message:
\* readValue stores the error in dec.err and the loop logs and continues.
DecodeSyntaxError ==
  /\ AtItem
  /\ item.k \in {"garbage", "truncated"}
  /\ decErr' = (IF item.k = "truncated" THEN "unexpected EOF" ELSE "invalid character")
  /\ warned' = ~warned
  /\ UNCHANGED <<body, pos, pc, nodes, allPropKeys, frames, err>>
  /\ UNCHANGED <<callVars, fnVars, reqVars>>

\* Decode returns the stored dec.err again: neither "EOF" nor "unexpected
\* end of JSON input", so the loop logs and continues.
DecodeStoredError ==
  /\ pc = "open" /\ decErr # ""
  /\ warned' = ~warned
  /\ UNCHANGED <<body, pos, decErr, pc, nodes, allPropKeys, frames, err>>
  /\ UNCHANGED <<callVars, fnVars, reqVars>>

\* Decode reads a complete value that is no array: an UnmarshalTypeError,
\* which is not stored; the value is consumed, the loop logs and continues.
DecodeTypeError ==
  /\ AtItem
  /\ item.k = "value" /\ ~Decodes(item)
  /\ pos' = pos + 1
  /\ warned' = ~warned
  /\ UNCHANGED <<body, decErr, pc, nodes, allPropKeys, frames, err>>
  /\ UNCHANGED <<callVars, fnVars, reqVars>>

\* A message with fewer than two elements, without a string tag, with a tag
\* other than node, err and fini, or a node or err message whose payload is
\* not a list of two elements: nothing happens.
ReadIgnored ==
  /\ AtItem
  /\ Decodes(item)
  /\ ~(HasTag(item, "node") /\ HasPayload(item))
  /\ ~(HasTag(item, "err") /\ HasPayload(item))
  /\ ~HasTag(item, "fini")
  /\ pos' = pos + 1
  /\ UNCHANGED <<body, decErr, warned, pc, nodes, allPropKeys, frames, err>>
  /\ UNCHANGED <<callVars, fnVars, reqVars>>

\* case "node"
ReadNode ==
  /\ AtItem
  /\ HasTag(item, "node") /\ HasPayload(item)
  /\ \E tagList \in TagOrders(msgOf(item)[2]) :
       LET node == NodeRecord(msgOf(item)[2], tagList)
       IN /\ nodes' = Append(nodes, node)
          /\ allPropKeys' = allPropKeys \cup DOMAIN node.Props
  /\ pos' = pos + 1
  /\ UNCHANGED <<body, decErr, warned, pc, frames, err>>
  /\ UNCHANGED <<callVars, fnVars, reqVars>>

\* A variant of ReadErr that drops the err message and reads on.
ReadErrIgnored ==
  /\ AtItem
  /\ HasTag(item, "err") /\ HasPayload(item)
  /\ pos' = pos + 1
  /\ UNCHANGED <<body, decErr, warned, pc, nodes, allPropKeys, frames, err>>
  /\ UNCHANGED <<callVars, fnVars, reqVars>>

\* case "err"
ReadErr ==
  /\ AtItem
  /\ HasTag(item, "err") /\ HasPayload(item)
  /\ pos' = pos + 1
  /\ pc' = "failed"
  /\ err' = "storm error: " \o Sprintf(msgOf(item)[2].l[2])
  /\ frames' = << >>
  /\ UNCHANGED <<body, decErr, warned, nodes, allPropKeys>>
  /\ UNCHANGED <<callVars, fnVars, reqVars>>

\* A variant of ReadFini that drops the fini message and reads on.
ReadFiniIgnored ==
  /\ AtItem
  /\ HasTag(item, "fini")
  /\ pos' = pos + 1
  /\ UNCHANGED <<body, decErr, warned, pc, nodes, allPropKeys, frames, err>>
  /\ UNCHANGED <<callVars, fnVars, reqVars>>

\* case "fini": goto done
ReadFini ==
  /\ AtItem
  /\ HasTag(item, "fini")
  /\ pos' = pos + 1
  /\ Finish
  /\ UNCHANGED <<body, decErr, warned, nodes, allPropKeys>>
  /\ UNCHANGED <<callVars, fnVars, reqVars>>

Next ==
  \/ SendRequest
  \/ DecodeEOF
  \/ DecodeSyntaxError
  \/ DecodeStoredError
  \/ DecodeTypeError
  \/ ReadIgnored
  \/ ReadNode
  \/ ReadErr
  \/ ReadFini

Spec == Init /\ [][Next]_vars

\* The query is running: it has not returned yet.  A step of Next is
\* possible in exactly these states.
Running == pc \in {"start", "open"}

\* The request is answered and the decode loop keeps running: weak fairness
\* of Next, its enabling condition written as Running.
LiveSpec ==
  Spec /\ WF_vars(SendRequest) /\ ([]<>(~Running) \/ []<><<Next>>_vars)

(***************************************************************************)
(* queryStormCall, run by several goroutines on one Datasource.            *)
(***************************************************************************)
Envelope(result) == Map(("status" :> Str("ok")) @@ ("result" :> result))

DocObjects ==
  Envelope(List(<<Map("x" :> Num(1)), Map(("x" :> Num(2)) @@ ("y" :> Str("z")))>>))
DocNested ==
  Envelope(List(<<Map(("a" :> Map(("b" :> Num(1)) @@ ("c" :> List(<<Num(1), Num(2)>>))))
                      @@ ("seen" :> Num(1700000000)))>>))
DocCollide ==
  Envelope(List(<<Map(("a" :> Map("b" :> Num(1))) @@ ("a.b" :> Str("top")))>>))
DocNodes ==
  Envelope(List(<<List(<<List(<<Str("inet:fqdn"), Str("example.com")>>),
                         Map(("iden" :> Str("abc"))
                             @@ ("tags" :> Map(("foo" :> Null) @@ ("bar" :> Null))))>>),
                  List(<<List(<<Str("inet:ipv4"), Num(16909060)>>),
                         Map("iden" :> Str("def"))>>)>>))
DocNodesBadForm ==
  Envelope(List(<<List(<<List(<<Str("inet:fqdn"), Str("example.com")>>),
                         Map("iden" :> Str("abc"))>>),
                  List(<<List(<<Num(1), Num(2)>>), Map("iden" :> Str("def"))>>)>>))
DocLists == Envelope(List(<<List(<<Num(1), Num(2)>>), List(<<Num(3)>>)>>))
DocTimes == Envelope(List(<<Num(1700000000), Str("2024-01-01T00:00:00Z")>>))
DocPrimitives == Envelope(List(<<Num(1700000000), Str("x")>>))
DocEmpty == Envelope(List(<< >>))
DocScalar == Envelope(Num(42))
DocBare == Map(("x" :> Num(1)) @@ ("y" :> Str("2")))
DocArray == List(<<Map("x" :> Num(1))>>)
DocNumber == Num(42)
DocTyped ==
  Envelope(List(<<Map(("b" :> Bool(TRUE)) @@ ("f" :> Frac(1, "5")) @@ ("n" :> Str("12"))),
                  Num(5),
                  Map(("f" :> Num(2)) @@ ("m" :> Bool(FALSE)) @@ ("m2" :> Num(1)))>>))
DocNumericText ==
  Envelope(List(<<Map(("n" :> Num(1)) @@ ("f" :> Frac(1, "5")) @@ ("k" :> Num(7))),
                  Map(("n" :> Str("2.0")) @@ ("f" :> Str("42")) @@ ("k" :> Str("42")))>>))
DocSeenSmall ==
  Envelope(List(<<Map(("seen" :> Num(5)) @@ ("created" :> Frac(1, "5"))),
                  Map("seen" :> Num(12))>>))
DocSeenMillis ==
  Envelope(List(<<Map("seen" :> Num(1700000000)), Map("seen" :> Num(1800000000))>>))
DocSeenMixed ==
  Envelope(List(<<Map("seen" :> Num(1700000000)), Map("seen" :> Str("never"))>>))
DocSeenPartial ==
  Envelope(List(<<Map("seen" :> Num(1700000000)), Map("seen" :> Num(5)),
                  Map("seen" :> Str("12"))>>))

\* The documents the call endpoint answers with.
CallDocs ==
  {DocObjects, DocNested, DocCollide, DocNodes, DocNodesBadForm, DocLists, DocTimes,
   DocPrimitives, DocEmpty, DocScalar, DocBare, DocArray, DocNumber, DocTyped, DocSeenMillis,
   DocSeenMixed, DocSeenPartial, DocNumericText, DocSeenSmall}

\* The opts of the queries: flatten absent, true, false.
CallOpts ==
  {Map(EmptyMap), Map("flatten" :> Bool(TRUE)), Map("flatten" :> Bool(FALSE))}

\* flatten, ok := opts["flatten"].(bool); the flatten a table is built with
flattenOf(opts) ==
  HasKey(opts, "flatten") /\ IsBool(opts.m["flatten"]) /\ opts.m["flatten"].b

CallInit ==
  /\ StreamIdle
  /\ FnIdle
  /\ ReqIdle
  /\ queryModel = NoCall
  /\ qm \in [Calls -> CallOpts]
  /\ cpc = [c \in Calls |-> "start"]
  /\ response = [c \in Calls |-> Null]
  /\ callFrames = [c \in Calls |-> << >>]
  /\ callErr = [c \in Calls |-> ""]

\* d.queryModel = &qm
StoreQueryModel(c) ==
  /\ cpc[c] = "start"
  /\ queryModel' = c
  /\ cpc' = [cpc EXCEPT ![c] = "request"]
  /\ UNCHANGED <<qm, response, callFrames, callErr>>
  /\ UNCHANGED <<streamVars, fnVars, reqVars>>

\* d.httpClient.Do(req), the status check and the decoding of the body into
\* map[string]interface{}, which fails for a document that is no object.
CallRequest(c) ==
  /\ cpc[c] = "request"
  /\ \E status \in StatusCodes, doc \in CallDocs :
       IF status # 200
       THEN /\ cpc' = [cpc EXCEPT ![c] = "failed"]
            /\ callErr' = [callErr EXCEPT ![c] =
                             "storm call failed with status: " \o ToString(status)]
            /\ response' = response
       ELSE IF ~IsMap(doc)
       THEN /\ cpc' = [cpc EXCEPT ![c] = "failed"]
            /\ callErr' = [callErr EXCEPT ![c] = "decode response: json: cannot unmarshal"]
            /\ response' = response
       ELSE /\ cpc' = [cpc EXCEPT ![c] = "parse"]
            /\ response' = [response EXCEPT ![c] = doc]
            /\ callErr' = callErr
  /\ UNCHANGED <<queryModel, qm, callFrames>>
  /\ UNCHANGED <<streamVars, fnVars, reqVars>>

\* shouldFlatten as parseObjectList reads it: from d.queryModel, whichever
\* call stored it last.
shouldFlatten == queryModel # NoCall /\ flattenOf(qm[queryModel])

\* parseStormCallResult on the result of the response.
ParseResult(c) ==
  /\ cpc[c] = "parse"
  /\ \E frame \in parseStormCallResult(responseResult(response[c]), shouldFlatten, c) :
       callFrames' = [callFrames EXCEPT ![c] = <<frame>>]
  /\ cpc' = [cpc EXCEPT ![c] = "done"]
  /\ UNCHANGED <<queryModel, qm, response, callErr>>
  /\ UNCHANGED <<streamVars, fnVars, reqVars>>

CallNext == \E c \in Calls : StoreQueryModel(c) \/ CallRequest(c) \/ ParseResult(c)

CallSpec == CallInit /\ [][CallNext]_vars

(***************************************************************************)
(* Functions called on their own: the function, its arguments, and the     *)
(* value it returns.                                                       *)
(***************************************************************************)
FnInit(f, inputs) ==
  /\ StreamIdle /\ CallsIdle /\ ReqIdle
  /\ fn = f /\ args \in inputs /\ ret = NoReturn

\* The call of f returns result (one of results, when Go leaves it open).
FnReturn(f, results) ==
  /\ fn = f /\ ret = NoReturn
  /\ ret' \in {[t |-> "returned", v |-> r] : r \in results}
  /\ UNCHANGED <<fn, args, streamVars, callVars, reqVars>>

Returned(f) == fn = f /\ ret.t = "returned"

\* The most values in a column handed to detectFieldType.
MaxValues == 3

\* The values of the columns: nil, booleans, whole and fractional numbers, a
\* whole number beyond int64, numeric and other strings, and a nested value.
ColumnValues ==
  {Null, Bool(TRUE), Num(3), Frac(2, "5"), Big, Str("12"), Str("1.5"), Str("2.0"),
   Str("-7"), Str("a"), Str(""), List(<<Num(1)>>)}

ClassifyInputs == UNION {[1..n -> ColumnValues] : n \in 0..MaxValues}

ClassifyInit == FnInit("detectFieldType", ClassifyInputs)
Classify == FnReturn("detectFieldType", {detectFieldType(args)})
ClassifySpec == ClassifyInit /\ [][Classify]_vars

(***************************************************************************)
(* injectTimeRange.  A time.Time of the time range is At(sec, ns, off):    *)
(* the instant, as seconds since the Unix epoch and nanoseconds within the *)
(* second, and the offset from UTC, in seconds, of the location the value  *)
(* carries.  The instants lie near the epoch, where sec * 1000 stays       *)
(* inside the integers of the checker.                                     *)
(***************************************************************************)
At(sec, ns, off) == [sec |-> sec, ns |-> ns, off |-> off]

\* The year, month and day of the day number z (days since 1970-01-01).
CivilFromDays(z) ==
  LET zz == z + 719468
      era == zz \div 146097
      doe == zz - era * 146097
      yoe == (doe - doe \div 1460 + doe \div 36524 - doe \div 146096) \div 365
      doy == doe - (365 * yoe + yoe \div 4 - yoe \div 100)
      mp == (5 * doy + 2) \div 153
      mo == IF mp < 10 THEN mp + 3 ELSE mp - 9
  IN [y |-> yoe + era * 400 + (IF mo <= 2 THEN 1 ELSE 0),
      mo |-> mo,
      d |-> doy - (153 * mp + 2) \div 5 + 1]

\* n in decimal, left-padded with zeros to w digits.
RECURSIVE ZeroPad(_, _)
ZeroPad(n, w) ==
  IF w <= 1 /\ n < 10 THEN ToString(n)
  ELSE ZeroPad(n \div 10, w - 1) \o ToString(n % 10)

\* t.Format("2006-01-02"): the calendar date of t in the location of t.
FormatDate(t) ==
  LET c == CivilFromDays((t.sec + t.off) \div 86400)
  IN ZeroPad(c.y, 4) \o "-" \o ZeroPad(c.mo, 2) \o "-" \o ZeroPad(c.d, 2)

\* t.Format("2006-01-02T15:04:05.000Z"): the date and the clock of t in the
\* location of t, the milliseconds truncated, then the letter Z.  A Z that
\* no 07 follows is not a zone field of the layout: it is copied as it is,
\* and Format does not convert t to UTC.
FormatMilliZ(t) ==
  LET clock == (t.sec + t.off) % 86400
  IN FormatDate(t) \o "T" \o ZeroPad(clock \div 3600, 2) \o ":"
       \o ZeroPad((clock % 3600) \div 60, 2) \o ":" \o ZeroPad(clock % 60, 2)
       \o "." \o ZeroPad(t.ns \div 1000000, 3) \o "Z"

\* t.UnixMilli() with the seconds left out.
UnixMilliOfNanos(t) == t.ns \div 1000000
\* t.UnixMilli(): the seconds in milliseconds plus the whole milliseconds
\* of the nanoseconds, which are never negative.
UnixMilli(t) == t.sec * 1000 + t.ns \div 1000000
\* t.Unix()
Unix(t) == t.sec

\* The keys injectTimeRange writes.
TimeVarKeys ==
  {"timeFrom", "timeTo", "timeRange", "dateFrom", "dateTo", "timeFromMs", "timeToMs",
   "timeFromSec", "timeToSec"}

\* The values injectTimeRange writes under TimeVarKeys.
timeVars(timeRange) ==
  [k \in TimeVarKeys |->
     CASE k = "timeFrom" -> Str(FormatMilliZ(timeRange.From))
       [] k = "timeTo" -> Str(FormatMilliZ(timeRange.To))
       [] k = "timeRange" -> List(<<Str(FormatMilliZ(timeRange.From)),
                                    Str(FormatMilliZ(timeRange.To))>>)
       [] k = "dateFrom" -> Str(FormatDate(timeRange.From))
       [] k = "dateTo" -> Str(FormatDate(timeRange.To))
       [] k = "timeFromMs" -> IntCell(UnixMilli(timeRange.From))
       [] k = "timeToMs" -> IntCell(UnixMilli(timeRange.To))
       [] k = "timeFromSec" -> IntCell(Unix(timeRange.From))
       [] k = "timeToSec" -> IntCell(Unix(timeRange.To))]

\* injectTimeRange with the variables always written into a new map.
injectTimeRangeNewVars(query, timeRange) ==
  LET opts == IF IsNull(query.Opts) THEN EmptyMap ELSE query.Opts.m
  IN [query EXCEPT !.Opts =
        Map([k \in DOMAIN opts \cup {"vars"} |->
               IF k = "vars" THEN Map(timeVars(timeRange)) ELSE opts[k]])]

\* Datasource.injectTimeRange: a nil Opts becomes a map; Opts["vars"] is
\* kept when it is a map and replaced by a new map otherwise; the nine
\* variables are written into it and it is stored under Opts["vars"].
injectTimeRange(query, timeRange) ==
  LET opts == IF IsNull(query.Opts) THEN EmptyMap ELSE query.Opts.m
      old == IF "vars" \in DOMAIN opts /\ IsMap(opts["vars"])
             THEN opts["vars"].m ELSE EmptyMap
      written == timeVars(timeRange)
      bag == [k \in DOMAIN old \cup TimeVarKeys |->
                 IF k \in TimeVarKeys THEN written[k] ELSE old[k]]
  IN [query EXCEPT !.Opts =
        Map([k \in DOMAIN opts \cup {"vars"} |->
               IF k = "vars" THEN Map(bag) ELSE opts[k]])]

\* The Opts of the queries: nil, empty, without vars, with vars that is
\* empty, that holds other variables, that holds earlier values of the
\* nine, and with vars that is not a map.
StaleVars == [k \in TimeVarKeys |-> Str("stale")]
InjectOpts ==
  {Null,
   Map(EmptyMap),
   Map("flatten" :> Bool(TRUE)),
   Map("vars" :> Map(EmptyMap)),
   Map(("vars" :> Map("limit" :> Num(10))) @@ ("flatten" :> Bool(TRUE))),
   Map("vars" :> Map(StaleVars @@ ("limit" :> Num(10)))),
   Map(("vars" :> Str("x")) @@ ("view" :> Str("v1")))}

\* The instants of the time ranges: 1970-01-01T23:30:00Z as a UTC value, as
\* a value of a location two hours east and of one five hours west; the
\* same instant 999999ns, 1ms and 1.5ms later; a second later; an instant
\* with all three millisecond digits; an instant before the epoch.
Instants ==
  {At(84600, 0, 0), At(84600, 0, 7200), At(84600, 0, -18000),
   At(84600, 999999, 0), At(84600, 1000000, 0), At(84600, 1500000, 0),
   At(84601, 0, 0), At(90061, 123456789, 0), At(-1, 999500000, 0)}

InjectInputs ==
  {[query |-> [StormQuery |-> "inet:ipv4", UseCall |-> FALSE, Opts |-> o],
    timeRange |-> [From |-> f, To |-> t]] : o \in InjectOpts, f \in Instants, t \in Instants}
InjectInit == FnInit("injectTimeRange", InjectInputs)
Inject == FnReturn("injectTimeRange", {injectTimeRange(args.query, args.timeRange)})
InjectSpec == InjectInit /\ [][Inject]_vars

(***************************************************************************)
(* parseTimeValue called on its own.                                       *)
(***************************************************************************)
\* Date-and-time strings: valid and invalid dates and clocks, the
\* separators T and space, no fraction and fractions of one, three and
\* seven digits, no zone, Z and two offsets.
TimeStrings ==
  {d \o sep \o c \o f \o z :
     d \in {"2023-11-14", "1970-01-01", "2023-02-30"},
     sep \in {"T", " "},
     c \in {"22:13:20", "00:00:00", "24:00:00"},
     f \in {"", ".5", ".123", ".1234567"},
     z \in {"", "Z", "+02:00", "-05:00"}}

\* The values parseTimeValue is called with: the strings above, numbers in
\* text, words, numbers around 1e9, and values that are neither.
NormalizeInputs ==
  {Str(x) : x \in TimeStrings}
    \cup {Str("1700000000000"), Str("1700000000"), Str("2000000000"), Str("12"), Str(""),
          Str("never"), Str("2023-11-14"),
          Num(1700000000), Num(1000000000), Num(1000000001), Frac(1000000000, "5"),
          Frac(1700000000, "75"), Num(5), Num(0), Null, Bool(TRUE), List(<<Num(1700000000)>>)}
NormalizeInit == FnInit("parseTimeValue", NormalizeInputs)
Normalize == FnReturn("parseTimeValue", {parseTimeValue(args)})
NormalizeSpec == NormalizeInit /\ [][Normalize]_vars

(***************************************************************************)
(* flattenObject called on its own.  The range over a Go map has no fixed  *)
(* order, so the call returns any of the maps flattenObject allows.        *)
(***************************************************************************)
\* The leaves: numbers, a boolean, nil, a string, and two lists.
FlattenLeaves ==
  {Num(1), Frac(2, "5"), Bool(TRUE), Null, Str("x"), List(<<Num(1), Num(2)>>),
   List(<<Map("k" :> Num(1))>>)}
\* What the key "a" holds: a leaf, a map with a leaf, an empty map, a map
\* in a map.
FlattenNested ==
  FlattenLeaves \cup {Map("b" :> l) : l \in FlattenLeaves}
    \cup {Map(EmptyMap)} \cup {Map("b" :> Map("d" :> l)) : l \in FlattenLeaves}
\* The objects: the key "a" alone, beside a key "c", beside a key "a.b"
\* (which a nested a, b composes to as well), and the object {a:{b:1,c:[1,2]}}.
FlattenObjects ==
  {"a" :> v : v \in FlattenNested}
    \cup {("a" :> v) @@ ("c" :> l) : v \in FlattenNested, l \in FlattenLeaves}
    \cup {("a" :> v) @@ ("a.b" :> l) : v \in FlattenNested, l \in FlattenLeaves}
    \cup {"a" :> Map(("b" :> Num(1)) @@ ("c" :> List(<<Num(1), Num(2)>>)))}
FlattenInputs == {[obj |-> o, prefix |-> p] : o \in FlattenObjects, p \in {"", "p"}}
FlattenInit == FnInit("flattenObject", FlattenInputs)
Flatten == FnReturn("flattenObject", flattenObject(args.obj, args.prefix))
FlattenSpec == FlattenInit /\ [][Flatten]_vars

(***************************************************************************)
(* QueryData: the queries of one request, run one after the other.  Each   *)
(* query is rejected, or runs queryStorm (the streaming decoder above) or  *)
(* queryStormCall (the call decoder above, in the slot of its RefID), and  *)
(* its DataResponse is stored under its RefID.                             *)
(***************************************************************************)
\* json.Unmarshal(query.JSON, &qm): a key that is absent or null leaves the
\* zero value of its field; a value of another type than the field is an
\* error.
Unmarshal(json) ==
  LET has(k) == k \in DOMAIN json.m /\ ~IsNull(json.m[k])
  IN [ok |-> /\ has("stormQuery") => IsStr(json.m["stormQuery"])
             /\ has("useCall") => IsBool(json.m["useCall"])
             /\ has("opts") => IsMap(json.m["opts"]),
      qm |-> [StormQuery |-> IF has("stormQuery") /\ IsStr(json.m["stormQuery"])
                             THEN json.m["stormQuery"].s ELSE "",
              UseCall |-> has("useCall") /\ IsBool(json.m["useCall"]) /\ json.m["useCall"].b,
              Opts |-> IF has("opts") /\ IsMap(json.m["opts"]) THEN json.m["opts"] ELSE Null]]

\* query() with the time-range injection placed before the check of the
\* query text, which then rejects nothing.
rejectsNothing(model) == FALSE
\* qm.StormQuery == ""
rejects(model) == model.StormQuery = ""

DataResponse(error, frameList) == [Error |-> error, Frames |-> frameList]

\* The query.JSON of the queries: a streaming query, a call query with and
\* without opts, an empty and a missing query text, and a query text that
\* is no string.
QueryJSONs ==
  {Map("stormQuery" :> Str("inet:ipv4")),
   Map(("stormQuery" :> Str("return($lib.list())")) @@ ("useCall" :> Bool(TRUE))
       @@ ("opts" :> Map("flatten" :> Bool(TRUE)))),
   Map(("stormQuery" :> Str("return($lib.list())")) @@ ("useCall" :> Bool(TRUE))),
   Map("stormQuery" :> Str("")),
   Map("useCall" :> Bool(TRUE)),
   Map("stormQuery" :> Num(1))}
DataQueries == {[RefID |-> r, JSON |-> j] : r \in Calls, j \in QueryJSONs}
\* The requests: one query, or two (with the same RefID or not).
Requests == {<<q>> : q \in DataQueries} \cup {<<p, q>> : p, q \in DataQueries}
\* query.TimeRange, the same for every query.
QueryTimeRange == [From |-> At(84600, 0, 0), To |-> At(84601, 0, 0)]

\* The bodies the streaming endpoint answers a query of a request with.
QueryBodies ==
  {<< >>, <<NodeFqdn, FiniMsg>>, <<NodeIPv4>>, <<PrintMsg, ErrMsg>>, <<NoArray, NodeFqdn>>,
   <<Garbage>>}

QueryDataInit ==
  /\ StreamIdle /\ CallsIdle /\ FnIdle
  /\ queries \in Requests /\ qi = 1 /\ qpc = "loop"
  /\ Responses = << >> /\ injected = {} /\ sent = {} /\ answers = << >>

\* The query the loop is at, and its QueryModel.
AtQuery == qpc = "loop" /\ qi <= Len(queries)
Decoded == Unmarshal(queries[qi].JSON)
\* A QueryData that returns the response of a failed query alone.
RespondAlone(refID, res) ==
  [r \in (IF res.Error = "" THEN DOMAIN Responses ELSE {}) \cup {refID} |->
     IF r = refID THEN res ELSE Responses[r]]
\* response.Responses[q.RefID] = res
Respond(refID, res) == [r \in DOMAIN Responses \cup {refID} |->
                          IF r = refID THEN res ELSE Responses[r]]

\* query(): the JSON does not unmarshal, or the query text is empty.
QueryReject ==
  /\ AtQuery
  /\ ~Decoded.ok \/ rejects(Decoded.qm)
  /\ Responses' = Respond(queries[qi].RefID,
                          DataResponse(IF ~Decoded.ok THEN "unmarshal query"
                                       ELSE "storm query is required", << >>))
  /\ qi' = qi + 1
  /\ UNCHANGED <<queries, qpc, injected, sent, answers>>
  /\ UNCHANGED <<streamVars, callVars, fnVars>>

\* query(): injectTimeRange, then queryStorm is entered.
QueryStorm ==
  /\ AtQuery
  /\ Decoded.ok /\ ~rejects(Decoded.qm) /\ ~Decoded.qm.UseCall
  /\ injected' = injected \cup {qi}
  /\ qpc' = "run"
  /\ UNCHANGED <<queries, qi, Responses, sent, answers>>
  /\ UNCHANGED <<streamVars, callVars, fnVars>>

\* query(): injectTimeRange, then queryStormCall is entered with the
\* QueryModel that holds the injected opts.  d.queryModel is as the calls
\* before left it.
QueryStormCall ==
  /\ AtQuery
  /\ Decoded.ok /\ ~rejects(Decoded.qm) /\ Decoded.qm.UseCall
  /\ injected' = injected \cup {qi}
  /\ qpc' = "run"
  /\ LET c == queries[qi].RefID
     IN /\ qm' = [qm EXCEPT ![c] = injectTimeRange(Decoded.qm, QueryTimeRange).Opts]
        /\ cpc' = [cpc EXCEPT ![c] = "start"]
        /\ response' = [response EXCEPT ![c] = Null]
        /\ callFrames' = [callFrames EXCEPT ![c] = << >>]
        /\ callErr' = [callErr EXCEPT ![c] = ""]
  /\ UNCHANGED <<queries, qi, Responses, sent, answers, queryModel>>
  /\ UNCHANGED <<streamVars, fnVars>>

\* The steps of queryStorm for the query that is running.
InQueryStorm ==
  /\ qpc = "run" /\ ~Decoded.qm.UseCall
  /\ \/ SendRequestOf(QueryBodies)
     \/ DecodeEOF
     \/ DecodeSyntaxError
     \/ DecodeStoredError
     \/ DecodeTypeError
     \/ ReadIgnored
     \/ ReadNode
     \/ ReadErr
     \/ ReadFini

\* The steps of queryStormCall for the query that is running.
InQueryStormCall ==
  /\ qpc = "run" /\ Decoded.qm.UseCall
  /\ \/ StoreQueryModel(queries[qi].RefID)
     \/ CallRequest(queries[qi].RefID)
     \/ ParseResult(queries[qi].RefID)

\* queryStorm has returned: response.Responses[q.RefID] = res.  The locals
\* of queryStorm are gone.
QueryStormReturns ==
  /\ qpc = "run" /\ ~Decoded.qm.UseCall
  /\ pc \in {"done", "failed"}
  /\ Responses' = Respond(queries[qi].RefID, DataResponse(err, frames))
  /\ sent' = sent \cup {qi}
  /\ answers' = Append(answers, IF pc = "failed" /\ pos = 0
                                THEN [status |-> 500, payload |-> Null]
                                ELSE [status |-> 200, payload |-> body])
  /\ qi' = qi + 1 /\ qpc' = "loop"
  /\ body' = << >> /\ pos' = 0 /\ decErr' = "" /\ warned' = FALSE /\ pc' = "start"
  /\ nodes' = << >> /\ allPropKeys' = {} /\ frames' = << >> /\ err' = ""
  /\ UNCHANGED <<queries, injected>>
  /\ UNCHANGED <<callVars, fnVars>>

\* queryStormCall has returned: response.Responses[q.RefID] = res.
QueryStormCallReturns ==
  /\ qpc = "run" /\ Decoded.qm.UseCall
  /\ cpc[queries[qi].RefID] \in {"done", "failed"}
  /\ LET c == queries[qi].RefID
     IN /\ Responses' = Respond(c, DataResponse(callErr[c], callFrames[c]))
        /\ answers' = Append(answers,
                             IF cpc[c] = "done" THEN [status |-> 200, payload |-> response[c]]
                             ELSE IF callErr[c] = "storm call failed with status: 500"
                             THEN [status |-> 500, payload |-> Null]
                             ELSE [status |-> 200, payload |-> Null])
  /\ sent' = sent \cup {qi}
  /\ qi' = qi + 1 /\ qpc' = "loop"
  /\ UNCHANGED <<queries, injected>>
  /\ UNCHANGED <<streamVars, callVars, fnVars>>

\* return response, nil
QueryDataReturns ==
  /\ qpc = "loop" /\ qi > Len(queries)
  /\ qpc' = "returned"
  /\ UNCHANGED <<queries, qi, Responses, injected, sent, answers>>
  /\ UNCHANGED <<streamVars, callVars, fnVars>>

QueryDataNext ==
  \/ QueryReject
  \/ QueryStorm
  \/ QueryStormCall
  \/ InQueryStorm
  \/ InQueryStormCall
  \/ QueryStormReturns
  \/ QueryStormCallReturns
  \/ QueryDataReturns

QueryDataSpec == QueryDataInit /\ [][QueryDataNext]_vars

(***************************************************************************)
(* Properties.                                                             *)
(***************************************************************************)
\* All the columns of a frame have the same length.
EqualColumns(frame) ==
  \A i, j \in 1..Len(frame.Fields) :
    Len(frame.Fields[i].Values) = Len(frame.Fields[j].Values)

\* The call's response is decoded on the object-list path.
IsObjectList(doc) ==
  LET result == responseResult(doc)
  IN IsList(result) /\ Len(result.l) > 0 /\ IsMap(result.l[1])

\* C1: under every interleaving of two calls on one Datasource, the
\* object-list table of a call is one that parseObjectList builds with the
\* flatten option of that call's own query.
C1_OwnFlatten ==
  \A c \in Calls :
    (cpc[c] = "done" /\ IsObjectList(response[c]))
      => callFrames[c][1] \in parseObjectList(responseResult(response[c]).l,
                                              flattenOf(qm[c]), c)

\* C2: every table returned by either decoder, on every path, has all of
\* its columns of equal length.
C2_EqualColumnLengths ==
  /\ \A i \in 1..Len(frames) : EqualColumns(frames[i])
  /\ \A c \in Calls : \A i \in 1..Len(callFrames[c]) : EqualColumns(callFrames[c][i])

\* C3: for every finite response body the decode loop terminates: it ends
\* with a table or with an error.
C3_DecodeTerminates == <>(pc \in {"done", "failed"})

\* A decoded message whose first element is the given tag, of any length.
Tagged(it, tag) ==
  it.k = "value" /\ IsList(it.v) /\ Len(it.v.l) >= 1 /\ it.v.l[1] = Str(tag)

\* C4 as stated: once a message tagged fini has been read, of one element
\* or with a payload, the decoder is in DONE and has consumed nothing after
\* it.
C4_FiniStops ==
  \A i \in 1..pos : Tagged(body[i], "fini") => (pc = "done" /\ pos = i)

\* C4 amended: once a message of at least two elements tagged fini has been
\* read, the decoder is in DONE with one table and no error, and has
\* consumed nothing after it.
C4_FiniWithPayloadStops ==
  \A i \in 1..pos :
    HasTag(body[i], "fini") => (pc = "done" /\ pos = i /\ Len(frames) = 1 /\ err = "")

\* A fini message with a payload was read and a node or err message
\* follows it in the body, unread.
C4_Witness ==
  /\ pc = "done" /\ pos >= 1 /\ pos < Len(body)
  /\ HasTag(body[pos], "fini")
  /\ Tagged(body[pos + 1], "node") \/ Tagged(body[pos + 1], "err")

\* C5 as stated: whenever a message tagged err is read before any fini, the
\* call has failed with an error and without a table, and nothing after
\* the message has been consumed.
C5_ErrAborts ==
  \A i \in 1..pos :
    (Tagged(body[i], "err") /\ \A j \in 1..(i - 1) : ~Tagged(body[j], "fini"))
      => (pc = "failed" /\ err # "" /\ frames = << >> /\ pos = i)

\* C5 amended: whenever an err message whose payload is a list of at least
\* two elements is read, the call has failed with an error that contains
\* the text of the payload's second element, without a table, and nothing
\* after the message has been consumed.
C5_ErrWithPayloadAborts ==
  \A i \in 1..pos :
    (HasTag(body[i], "err") /\ HasPayload(body[i]))
      => /\ pc = "failed" /\ pos = i /\ frames = << >>
         /\ Contains(err, Sprintf(msgOf(body[i])[2].l[2]))

\* An err message was read after node records were collected, with more of
\* the body behind it.
C5_Witness ==
  /\ pc = "failed" /\ pos >= 1 /\ pos < Len(body)
  /\ HasTag(body[pos], "err") /\ HasPayload(body[pos])
  /\ Len(nodes) > 0
  /\ Contains(err, "unexpected token")

\* The keys observed in the records, and the values of one key by record
\* (nil where the record lacks it).
ObservedKeys == UNION {DOMAIN nodes[i].Props : i \in 1..Len(nodes)}
RawColumn(key) ==
  [i \in 1..Len(nodes) |->
     IF key \in DOMAIN nodes[i].Props THEN nodes[i].Props[key] ELSE Null]

\* The table of a completed stream and its columns after the four base
\* columns.
Table == frames[1]
PropColumns == SubSeq(Table.Fields, 5, Len(Table.Fields))
HasColumn(name) == \E c \in 1..Len(Table.Fields) : Table.Fields[c].Name = name
Column(name) ==
  Table.Fields[CHOOSE c \in 1..Len(Table.Fields) : Table.Fields[c].Name = name]

\* A name that matches the time-indicator set, case-insensitively.
IsTimeName(name) == \E ind \in TimeIndicators : Contains(ToLower(name), ind)
\* <base>_repr: the base.
ReprBase(key) == SubSeq(key, 1, Len(key) - 5)

C7_PropColumnsSorted ==
  (pc = "done" /\ Len(nodes) > 0) =>
    /\ Len(Table.Fields) >= 4
    /\ {PropColumns[c].Name : c \in 1..Len(PropColumns)}
         = {k \in ObservedKeys : ~(HasSuffix(k, "_repr") /\ IsTimeName(ReprBase(k)))}
    /\ \A c \in 1..(Len(PropColumns) - 1) :
         StrLess(PropColumns[c].Name, PropColumns[c + 1].Name)
    /\ \A c \in 1..Len(PropColumns) :
         /\ Len(PropColumns[c].Values) = Len(nodes)
         /\ \A i \in 1..Len(nodes) :
              PropColumns[c].Name \notin DOMAIN nodes[i].Props
                => PropColumns[c].Values[i] \in {Str(""), Null}

\* Two records, a key that only one of them has, and an upper-case key
\* sorted before the lower-case ones.
C7_Witness ==
  /\ pc = "done" /\ Len(nodes) >= 2
  /\ HasColumn("LastSeen") /\ HasColumn("asn") /\ HasColumn("asn_repr")
  /\ \E i, j \in 1..Len(nodes) :
       "LastSeen" \in DOMAIN nodes[i].Props /\ "LastSeen" \notin DOMAIN nodes[j].Props
  /\ PropColumns[1].Name = "LastSeen"

\* The first four columns are form, value, iden, tags.
HasBaseColumns ==
  /\ Len(Table.Fields) >= 4
  /\ [c \in 1..4 |-> Table.Fields[c].Name] = <<"form", "value", "iden", "tags">>

\* C8 as stated: every table of a completed stream starts with the columns
\* form, value, iden, tags, whatever the number of records, none included.
C8_BaseColumnsAlways == pc = "done" => HasBaseColumns

\* C8 amended: the table of a completed stream with at least one record
\* starts with the columns form, value, iden, tags, one cell per record; the
\* table of a stream without any record has no column.
C8_BaseColumnsIfRecords ==
  pc = "done" =>
    IF Len(nodes) > 0
    THEN /\ HasBaseColumns
         /\ \A c \in 1..4 : Len(Table.Fields[c].Values) = Len(nodes)
    ELSE Table.Fields = << >>

\* A completed stream of two records.
C8_Witness == pc = "done" /\ Len(nodes) = 2 /\ HasBaseColumns

\* C9: an observed key that matches the time-indicator set and does not
\* end in _repr is a time column; each cell is parseTimeValue of the
\* record's value, null where the record lacks the key or the value does
\* not normalize, and the decode has not failed.
C9_TimeColumns ==
  pc = "done" =>
    \A k \in ObservedKeys :
      (IsTimeName(k) /\ ~HasSuffix(k, "_repr")) =>
        /\ HasColumn(k)
        /\ Column(k).Type = "time"
        /\ Column(k).Values =
             [i \in 1..Len(nodes) |->
                IF k \in DOMAIN nodes[i].Props THEN parseTimeValue(nodes[i].Props[k])
                ELSE Null]
        /\ \A i \in 1..Len(nodes) :
             (k \notin DOMAIN nodes[i].Props \/ parseTimeValue(nodes[i].Props[k]) = Null)
               => Column(k).Values[i] = Null

\* The seen column holds a time, a null for a value that does not
\* normalize and a null for a record without the key; LastSeen is a time
\* column too.
C9_Witness ==
  /\ pc = "done" /\ Len(nodes) = 3
  /\ HasColumn("seen") /\ HasColumn("LastSeen")
  /\ Column("LastSeen").Type = "time"
  /\ \E i, j, k \in 1..3 :
       /\ Column("seen").Values[i] = Time(1700000, 0)
       /\ "seen" \in DOMAIN nodes[j].Props /\ Column("seen").Values[j] = Null
       /\ "seen" \notin DOMAIN nodes[k].Props /\ Column("seen").Values[k] = Null

\* C10: an observed <base>_repr key has no column exactly when <base>
\* matches the time-indicator set.
C10_ReprColumns ==
  (pc = "done" /\ Len(nodes) > 0) =>
    \A k \in ObservedKeys :
      HasSuffix(k, "_repr") => (~HasColumn(k) <=> IsTimeName(ReprBase(k)))

\* Both kinds of _repr key were observed: asn_repr has a column, seen_repr
\* has none.
C10_Witness ==
  /\ pc = "done"
  /\ {"asn_repr", "seen_repr"} \subseteq ObservedKeys
  /\ HasColumn("asn_repr") /\ ~HasColumn("seen_repr")

\* The object list a completed call decoded: the elements of the result
\* that are mappings, whose values are all scalars (so that flattening
\* changes nothing).
ObjectsOf(c) == SelectSeq(responseResult(response[c]).l, IsMap)
IsScalar(v) == ~IsMap(v) /\ ~IsList(v)
DecodedFlatObjects(c) ==
  /\ cpc[c] = "done" /\ IsObjectList(response[c])
  /\ \A j \in 1..Len(ObjectsOf(c)) :
       \A k \in DOMAIN ObjectsOf(c)[j].m : IsScalar(ObjectsOf(c)[j].m[k])
CallTable(c) == callFrames[c][1]
\* The values of one key by mapping element (nil where the element lacks it).
ObjectColumn(c, key) ==
  [j \in 1..Len(ObjectsOf(c)) |->
     IF key \in DOMAIN ObjectsOf(c)[j].m THEN ObjectsOf(c)[j].m[key] ELSE Null]
\* The names of the columns are the keys of all mapping elements, ascending.
KeysAreSortedColumns(c) ==
  LET fields == CallTable(c).Fields
  IN /\ {fields[i].Name : i \in 1..Len(fields)}
          = UNION {DOMAIN ObjectsOf(c)[j].m : j \in 1..Len(ObjectsOf(c))}
     /\ \A i \in 1..(Len(fields) - 1) : StrLess(fields[i].Name, fields[i + 1].Name)

IsOkEnvelope(doc) ==
  /\ IsMap(doc)
  /\ "status" \in DOMAIN doc.m /\ doc.m["status"] = Str("ok")
  /\ "result" \in DOMAIN doc.m

\* C12: a call that was answered with status 200 does not fail, whatever
\* JSON document the body holds (an envelope, an object without envelope, a
\* bare array or a bare scalar), and its table is the decoding of the result
\* of an envelope and of the whole document otherwise.
C12_BothBodyFormsAccepted ==
  \A c \in Calls :
    /\ cpc[c] = "failed" => callErr[c] = "storm call failed with status: 500"
    /\ cpc[c] = "done" =>
         \E flatten \in BOOLEAN :
           callFrames[c][1] \in
             parseStormCallResult(IF IsOkEnvelope(response[c])
                                  THEN response[c].m["result"] ELSE response[c],
                                  flatten, c)

\* What a value contributes to the classification, by the reference rules:
\* a decimal text is an optional sign, digits, and at most one point.
IsDecimalText(s) ==
  LET unsigned == IF s # "" /\ CharAt(s, 1) \in {"-", "+"} THEN Tail(s) ELSE s
  IN /\ \E i \in 1..Len(unsigned) : CharAt(unsigned, i) \in CharsOf("0123456789")
     /\ \A i \in 1..Len(unsigned) : CharAt(unsigned, i) \in CharsOf("0123456789.")
     /\ Cardinality({i \in 1..Len(unsigned) : CharAt(unsigned, i) = "."}) <= 1
\* The text has a non-zero digit after its point.
HasFractionText(s) ==
  \E i, j \in 1..Len(s) :
    i < j /\ CharAt(s, i) = "." /\ CharAt(s, j) \in CharsOf("123456789")
\* A whole number beyond int64 counts as bigAs.
Contribution(v, bigAs) ==
  CASE v.t = "null" -> "null"
    [] v.t = "bool" -> "bool"
    [] v.t = "num" -> IF v.f = "" THEN "int" ELSE "float"
    [] v.t = "big" -> bigAs
    [] v.t = "str" /\ IsDecimalText(v.s) -> IF HasFractionText(v.s) THEN "float" ELSE "int"
    [] OTHER -> "string"
\* The reference rules (a) to (e), the first that matches.
ReferenceType(values, bigAs) ==
  LET kinds == {Contribution(values[i], bigAs) : i \in 1..Len(values)}
  IN IF "string" \in kinds THEN "string"
     ELSE IF "bool" \in kinds /\ "int" \notin kinds /\ "float" \notin kinds THEN "bool"
     ELSE IF "float" \in kinds THEN "float"
     ELSE IF "int" \in kinds THEN "int"
     ELSE "string"
\* Booleans and numbers, and nothing that makes a string column.
MixesBoolAndNumeric(values) ==
  /\ \E i \in 1..Len(values) : IsBool(values[i])
  /\ \E i \in 1..Len(values) : Contribution(values[i], "int") \in {"int", "float"}
  /\ \A i \in 1..Len(values) : Contribution(values[i], "int") # "string"

\* C13 as stated: for every sequence of values, detectFieldType returns the
\* type the reference rules give, every integral number counting as int; a
\* mix of booleans and numbers gives the numeric type.
C13_ClassifierFollowsRules ==
  Returned("detectFieldType") =>
    /\ ret.v = ReferenceType(args, "int")
    /\ MixesBoolAndNumeric(args) => ret.v \in {"int", "float"}

\* C13 amended: for every sequence of values, detectFieldType returns the
\* type the reference rules give, an integral number counting as int when
\* int64 holds it and as float when it is beyond int64; a mix of booleans
\* and numbers gives the numeric type.
C13_ClassifierFollowsRulesInt64 ==
  Returned("detectFieldType") =>
    /\ ret.v = ReferenceType(args, "float")
    /\ MixesBoolAndNumeric(args) => ret.v \in {"int", "float"}

\* detectFieldType has returned float for a boolean, a whole number given as
\* a string and a fractional number.
C13_Witness ==
  /\ Returned("detectFieldType")
  /\ args = <<Bool(TRUE), Str("12"), Frac(2, "5")>>
  /\ ret.v = "float"

\* The query injectTimeRange was given and the one it returned, their
\* options and their variables (no entries where there was no map).
OptsOf(query) == IF IsNull(query.Opts) THEN EmptyMap ELSE query.Opts.m
VarsOf(query) ==
  IF "vars" \in DOMAIN OptsOf(query) /\ IsMap(OptsOf(query)["vars"])
  THEN OptsOf(query)["vars"].m ELSE EmptyMap

\* C14: injectTimeRange returns the query with the nine time variables set
\* in opts.vars, whatever they held before; every other variable and every
\* other key of opts is as it was, also when opts or opts.vars was absent
\* or empty.
C14_InjectWritesNineKeys ==
  Returned("injectTimeRange") =>
    /\ ret.v.StormQuery = args.query.StormQuery
    /\ ret.v.UseCall = args.query.UseCall
    /\ IsMap(ret.v.Opts)
    /\ DOMAIN OptsOf(ret.v) = DOMAIN OptsOf(args.query) \cup {"vars"}
    /\ \A k \in DOMAIN OptsOf(args.query) \ {"vars"} :
         OptsOf(ret.v)[k] = OptsOf(args.query)[k]
    /\ IsMap(OptsOf(ret.v)["vars"])
    /\ DOMAIN VarsOf(ret.v) = DOMAIN VarsOf(args.query) \cup TimeVarKeys
    /\ \A k \in DOMAIN VarsOf(args.query) \ TimeVarKeys :
         VarsOf(ret.v)[k] = VarsOf(args.query)[k]
    /\ \A k \in TimeVarKeys : VarsOf(ret.v)[k] = timeVars(args.timeRange)[k]

\* injectTimeRange has returned for a query whose variables held a limit and
\* earlier values of the nine: the limit is kept, the nine are new.
C14_Witness ==
  /\ Returned("injectTimeRange")
  /\ "limit" \in DOMAIN VarsOf(args.query)
  /\ VarsOf(args.query)["timeFrom"] = Str("stale")
  /\ VarsOf(ret.v)["limit"] = Num(10)
  /\ VarsOf(ret.v)["timeFrom"] # Str("stale")


\* The order of two instants, whatever locations they carry.
NotAfter(a, b) == a.sec < b.sec \/ (a.sec = b.sec /\ a.ns <= b.ns)
\* The instant one millisecond after a.
MilliAfter(a) ==
  IF a.ns + 1000000 >= 1000000000
  THEN [a EXCEPT !.sec = a.sec + 1, !.ns = a.ns + 1000000 - 1000000000]
  ELSE [a EXCEPT !.ns = a.ns + 1000000]
\* The millisecond variables injectTimeRange returned.
TimeFromMs == VarsOf(ret.v)["timeFromMs"].i
TimeToMs == VarsOf(ret.v)["timeToMs"].i

\* C15 as stated: for every time range, from > to and instants less than a
\* millisecond apart included, timeFromMs <= timeToMs exactly when
\* from <= to.
C15_MsOrderIffOrder ==
  Returned("injectTimeRange") =>
    (TimeFromMs <= TimeToMs <=> NotAfter(args.timeRange.From, args.timeRange.To))

\* C15 amended: for every time range, from <= to implies
\* timeFromMs <= timeToMs, and from later than to by a millisecond or more
\* implies timeFromMs > timeToMs; between the two, from later than to by
\* less than a millisecond, either order of the variables may come out.
C15_MsOrderFollowsOrder ==
  Returned("injectTimeRange") =>
    /\ NotAfter(args.timeRange.From, args.timeRange.To) => TimeFromMs <= TimeToMs
    /\ NotAfter(MilliAfter(args.timeRange.To), args.timeRange.From) => TimeFromMs > TimeToMs

\* injectTimeRange has returned for a time range whose from is later than
\* its to within the same millisecond: the two variables are equal.
C15_Witness ==
  /\ Returned("injectTimeRange")
  /\ ~NotAfter(args.timeRange.From, args.timeRange.To)
  /\ ~NotAfter(MilliAfter(args.timeRange.To), args.timeRange.From)
  /\ TimeFromMs = TimeToMs

\* The same value in the location UTC.
UTC(t) == [t EXCEPT !.off = 0]

\* C16: timeFrom, timeTo and the two elements of timeRange are the instants
\* of the time range rendered in UTC as YYYY-MM-DDTHH:MM:SS.sssZ, and
\* dateFrom and dateTo are their UTC calendar dates, whatever location the
\* time values carry; the same instant in two locations thus gives the same
\* strings.
C16_UtcRendering ==
  Returned("injectTimeRange") =>
    LET from == UTC(args.timeRange.From)
        to == UTC(args.timeRange.To)
    IN /\ VarsOf(ret.v)["timeFrom"] = Str(FormatMilliZ(from))
       /\ VarsOf(ret.v)["timeTo"] = Str(FormatMilliZ(to))
       /\ VarsOf(ret.v)["timeRange"] = List(<<Str(FormatMilliZ(from)), Str(FormatMilliZ(to))>>)
       /\ VarsOf(ret.v)["dateFrom"] = Str(FormatDate(from))
       /\ VarsOf(ret.v)["dateTo"] = Str(FormatDate(to))


\* An instant formatted as a millisecond-precision ISO-8601 UTC string.
FormatInstant(t) == FormatMilliZ(At(t.sec, t.ns, 0))
\* An instant without what lies below the millisecond.
TruncateMilli(t) == Time(t.sec, (t.ns \div 1000000) * 1000000)
\* The value parseTimeValue returned, formatted and parsed again.
Renormalized == parseTimeValue(Str(FormatInstant(ret.v)))

\* C17 as stated: for every input that normalizes, formatting the instant
\* as a millisecond-precision ISO-8601 UTC string and normalizing that
\* string gives the same instant.
C17_NormalizeIdempotent ==
  Returned("parseTimeValue") /\ ret.v # Null => Renormalized = ret.v

\* C17 amended: for every input that normalizes, formatting the instant as a
\* millisecond-precision ISO-8601 UTC string and normalizing that string
\* gives the instant truncated to the millisecond: the same instant when it
\* is a whole number of milliseconds, an earlier one when the input was a
\* string with a finer fraction.
C17_NormalizeIdempotentToMilli ==
  Returned("parseTimeValue") /\ ret.v # Null =>
    /\ Renormalized = TruncateMilli(ret.v)
    /\ ret.v.ns % 1000000 = 0 => Renormalized = ret.v

\* parseTimeValue has returned the instant of a string with seven
\* fractional digits, in a zone east of UTC; formatted and normalized again
\* it is the instant of the millisecond.
C17_Witness ==
  /\ Returned("parseTimeValue")
  /\ args = Str("2023-11-14T22:13:20.1234567+02:00")
  /\ ret.v = Time(1699992800, 123456700)
  /\ Renormalized = Time(1699992800, 123000000)

\* The string patterns of the normalizer.  A pattern is matched with the
\* digits of the string in place and the calendar fields in range.
MatchesLayout(str, sep, tail) ==
  /\ Len(str) = 19 + Len(tail)
  /\ CharAt(str, 11) = sep
  /\ SubSeq(str, 20, Len(str)) = tail
  /\ ParseDateTime(SubSeq(str, 1, 10) \o "T" \o SubSeq(str, 12, 19)).ok
MatchesMilliLayout(str) ==
  /\ Len(str) = 24
  /\ CharAt(str, 20) = "." /\ CharAt(str, 24) = "Z"
  /\ \A i \in 21..23 : IsDigit(CharAt(str, i))
  /\ ParseDateTime(str).ok
\* A bare number of n digits that lies strictly between 10^(n-1) and
\* 2 * 10^(n-1).
BareNumberOf(str, n) ==
  /\ Len(str) = n
  /\ \A i \in 1..n : IsDigit(CharAt(str, i))
  /\ CharAt(str, 1) = "1"
  /\ \E i \in 2..n : CharAt(str, i) # "0"
MatchesStringPolicy(str) ==
  \/ ParseRFC3339(str) # Null
  \/ MatchesMilliLayout(str)
  \/ MatchesLayout(str, "T", "Z")
  \/ MatchesLayout(str, " ", "")
  \/ BareNumberOf(str, 13)
  \/ BareNumberOf(str, 10)

\* C18: for a string, parseTimeValue returns a time when the string is
\* RFC 3339, matches YYYY-MM-DDTHH:MM:SS.sssZ, YYYY-MM-DDTHH:MM:SSZ or
\* YYYY-MM-DD HH:MM:SS, or is a bare number between 1e12 and 2e12 or
\* between 1e9 and 2e9; for every other string it returns nil.
C18_StringPatternsNormalize ==
  Returned("parseTimeValue") /\ IsStr(args) =>
    (ret.v # Null <=> MatchesStringPolicy(args.s))


\* The non-mapping leaves of a mapping, each with the key its path composes
\* to under the prefix.
RECURSIVE LeavesOf(_, _)
LeavesOf(obj, prefix) ==
  UNION {LET composed == IF prefix = "" THEN key ELSE prefix \o "." \o key
         IN IF IsMap(obj[key]) THEN LeavesOf(obj[key].m, composed)
            ELSE {[key |-> composed, leaf |-> obj[key]]}
         : key \in DOMAIN obj}
\* What the output holds for a leaf: the compact JSON text of a sequence,
\* the leaf itself otherwise.
FlatValue(leaf) == IF IsList(leaf) THEN Str(Marshal(leaf)) ELSE leaf
\* No entry of the output is a mapping or a sequence.
NoNestedEntry(result) == \A k \in DOMAIN result : ~IsMap(result[k]) /\ ~IsList(result[k])

\* C19 as stated: flattenObject maps every non-mapping leaf to the key its
\* path composes to, under the prefix when there is one: numbers, booleans
\* and nil as they are, sequences as their compact JSON text; no entry of
\* the output is a mapping or a sequence.
C19_FlattenEveryLeaf ==
  Returned("flattenObject") =>
    /\ \A e \in LeavesOf(args.obj, args.prefix) :
         e.key \in DOMAIN ret.v /\ ret.v[e.key] = FlatValue(e.leaf)
    /\ NoNestedEntry(ret.v)

\* C19 amended: the keys of the output of flattenObject are the keys the
\* paths of the non-mapping leaves compose to, under the prefix when there
\* is one; an entry holds a leaf of its key, numbers, booleans and nil as
\* they are and sequences as their compact JSON text, and where two leaves
\* compose to the same key it holds either of them; no entry of the output
\* is a mapping or a sequence.
C19_FlattenLeaves ==
  Returned("flattenObject") =>
    LET leaves == LeavesOf(args.obj, args.prefix)
    IN /\ DOMAIN ret.v = {e.key : e \in leaves}
       /\ \A k \in DOMAIN ret.v : \E e \in leaves : e.key = k /\ ret.v[k] = FlatValue(e.leaf)
       /\ NoNestedEntry(ret.v)

\* flattenObject has returned for {a:{b:1,c:[1,2]}} and the empty prefix.
C19_Witness ==
  /\ Returned("flattenObject")
  /\ args.prefix = ""
  /\ args.obj = ("a" :> Map(("b" :> Num(1)) @@ ("c" :> List(<<Num(1), Num(2)>>))))
  /\ ret.v = (("a.b" :> Num(1)) @@ ("a.c" :> Str("[1,2]")))


\* The column named seen of the table of a call, where there is one.
HasSeenColumn(c) ==
  /\ DecodedFlatObjects(c)
  /\ \E i \in 1..Len(CallTable(c).Fields) : CallTable(c).Fields[i].Name = "seen"
SeenField(c) ==
  CallTable(c).Fields[CHOOSE i \in 1..Len(CallTable(c).Fields) :
                        CallTable(c).Fields[i].Name = "seen"]
\* A number of the scale the normalizer reads as milliseconds.
MilliScale(v) == IsNum(v) /\ v.n > 1000000000
\* A string that is not a number in text.
NonNumericString(v) == IsStr(v) /\ ~IsDecimalText(v.s)
\* A seen column of millisecond-scale numbers is a time column of their
\* instants; a seen column with a non-numeric string is a string column of
\* the renderings of its values.
SeenTimeOrString(c) ==
  LET field == SeenField(c)
      raw == ObjectColumn(c, "seen")
  IN /\ (\A j \in 1..Len(raw) : MilliScale(raw[j])) =>
          /\ field.Type = "time"
          /\ \A j \in 1..Len(raw) :
               field.Values[j] = Time(raw[j].n \div 1000, (raw[j].n % 1000) * 1000000)
     /\ (\E j \in 1..Len(raw) : NonNumericString(raw[j])) =>
          /\ field.Type = "string"
          /\ \A j \in 1..Len(raw) : raw[j] # Null => field.Values[j] = Str(Sprintf(raw[j]))

\* C20: in the object-list path a seen column of millisecond-scale numbers
\* is a time column, and a seen column with a non-numeric string is a
\* string column of the string renderings of its values: a seen column that
\* is a time column holds no non-numeric string.  Its cells are the
\* instants of the values that normalize, null for the others.
C20_SeenTimeColumn ==
  \A c \in Calls :
    HasSeenColumn(c) =>
      /\ SeenTimeOrString(c)
      /\ SeenField(c).Type = "time" =>
           LET raw == ObjectColumn(c, "seen")
           IN /\ \A j \in 1..Len(raw) :
                   /\ ~NonNumericString(raw[j])
                   /\ MilliScale(raw[j]) <=> SeenField(c).Values[j] # Null
              /\ \E j \in 1..Len(raw) : MilliScale(raw[j])

\* One call has decoded the seen values 1700000000 and 1800000000 into a
\* time column, the other the values 1700000000 and "never" into a string
\* column.
C20_Witness ==
  \E c, d \in Calls :
    /\ cpc[c] = "done" /\ response[c] = DocSeenMillis
    /\ SeenField(c) = Field("seen", "time", <<Time(1700000, 0), Time(1800000, 0)>>)
    /\ cpc[d] = "done" /\ response[d] = DocSeenMixed
    /\ SeenField(d) = Field("seen", "string", <<Str("1.7e+09"), Str("never")>>)


\* The call decoded a non-empty list whose first element is neither a
\* mapping nor a list.
IsPrimitiveList(doc) ==
  LET result == responseResult(doc)
  IN IsList(result) /\ Len(result.l) > 0 /\ ~IsMap(result.l[1]) /\ ~IsList(result.l[1])
\* The value normalizes as a timestamp.
Normalizes(v) == parseTimeValue(v) # Null

\* C21: the table of a primitive list has the single column value, one cell
\* per element; it is a time column of the instants exactly when every
\* element normalizes as a timestamp, and otherwise a string column of the
\* display strings of all the elements.
C21_PrimitiveListAllOrNothing ==
  \A c \in Calls :
    (cpc[c] = "done" /\ IsPrimitiveList(response[c])) =>
      LET items == responseResult(response[c]).l
          fields == CallTable(c).Fields
      IN /\ Len(fields) = 1 /\ fields[1].Name = "value"
         /\ Len(fields[1].Values) = Len(items)
         /\ fields[1].Type = "time" <=> \A i \in 1..Len(items) : Normalizes(items[i])
         /\ fields[1].Type = "time" =>
              \A i \in 1..Len(items) : fields[1].Values[i] = parseTimeValue(items[i])
         /\ fields[1].Type # "time" =>
              /\ fields[1].Type = "string"
              /\ \A i \in 1..Len(items) : fields[1].Values[i] = Str(Sprintf(items[i]))

\* The call that decoded [1700000000, "x"]: the first element would have
\* normalized, and the column holds the display strings of both.
C21_Witness ==
  \E c \in Calls :
    /\ cpc[c] = "done" /\ response[c] = DocPrimitives
    /\ Normalizes(Num(1700000000))
    /\ CallTable(c).Fields = <<Field("value", "string", <<Str("1.7e+09"), Str("x")>>)>>


\* The queries QueryData is through with, and the one whose response is
\* stored under its RefID: the last of that RefID.
Processed == 1..(qi - 1)
ModelOf(j) == Unmarshal(queries[j].JSON)
EmptyText(j) == ModelOf(j).ok /\ ModelOf(j).qm.StormQuery = ""
LastOfRefID(j) == \A k \in Processed : k > j => queries[k].RefID # queries[j].RefID
ResponseOf(j) == Responses[queries[j].RefID]

\* C22: a query whose stormQuery is empty or missing is rejected at once:
\* its response is the error "storm query is required" without frames,
\* injectTimeRange was not called for it, and neither queryStorm nor
\* queryStormCall was entered for it, so that no request was sent.
C22_EmptyQueryRejected ==
  /\ qpc = "run" => ~EmptyText(qi)
  /\ \A j \in Processed :
       EmptyText(j) =>
         /\ j \notin injected
         /\ j \notin sent
         /\ LastOfRefID(j) => ResponseOf(j) = DataResponse("storm query is required", << >>)

\* QueryData has returned for a request of a call query without query text
\* and a streaming query that returned a table: the first was rejected.
C22_Witness ==
  /\ qpc = "returned"
  /\ Len(queries) = 2
  /\ queries[1] = [RefID |-> "A", JSON |-> Map("useCall" :> Bool(TRUE))]
  /\ Responses["A"] = DataResponse("storm query is required", << >>)
  /\ injected = {2} /\ sent = {2}
  /\ Responses["B"].Error = "" /\ Len(Responses["B"].Frames) = 1


\* The tables of a response: its frames without their RefID.
TablesOf(res) == [i \in 1..Len(res.Frames) |->
                    [Name |-> res.Frames[i].Name, Fields |-> res.Frames[i].Fields]]
\* QueryData has run the same query under two RefIDs and the remote store
\* answered both with status 200 and the same payload (nil in answers: a
\* call document that is no object).
SameQueryTwice ==
  /\ qpc = "returned"
  /\ Len(queries) = 2 /\ Len(answers) = 2
  /\ queries[1].JSON = queries[2].JSON
  /\ queries[1].RefID # queries[2].RefID
  /\ answers[1].status = 200 /\ answers[2].status = 200
  /\ answers[1].payload = answers[2].payload

\* C23: decoding is deterministic: the streaming decoder and the call-result
\* decoder, run twice on the same response payload with the same options,
\* yield the same tables, with the same columns in the same order and the
\* same cells.
C23_DecodingDeterministic ==
  SameQueryTwice =>
    /\ Responses[queries[1].RefID].Error = Responses[queries[2].RefID].Error
    /\ TablesOf(Responses[queries[1].RefID]) = TablesOf(Responses[queries[2].RefID])


\* A node message whose payload has the structure [[form, value], props]:
\* a list of two elements or more that starts with a pair whose first
\* element is a string.
WellFormedNode(it) ==
  HasTag(it, "node") /\ HasPayload(it) /\ HasNodeDef(msgOf(it)[2])
\* The well-formed node messages the decoder has read, in arrival order.
WellFormedRead == SelectSeq(SubSeq(body, 1, pos), WellFormedNode)
\* The rows of the node table, by their form cell.
RowForms == IF Table.Fields = << >> THEN << >> ELSE Table.Fields[1].Values

\* C24: the rows of the node table of a completed stream are the
\* well-formed node messages read, in arrival order; a node message with a
\* payload that is too short, or whose [form, value] pair is missing, too
\* short or has a form that is no string, contributes no row.
C24_RowsAreWellFormedNodes ==
  pc = "done" =>
    /\ Len(RowForms) = Len(WellFormedRead)
    /\ \A i \in 1..Len(RowForms) :
         i <= Len(WellFormedRead) =>
           RowForms[i] = Str(msgOf(WellFormedRead[i])[2].l[1].l[1].s)


\* A value the classifier counts as numeric, and its number as a float64.
CountsAsNumeric(v) == IsNum(v) \/ (IsStr(v) /\ ParseFloat(v.s).ok)
NumberOf(v) == IF IsNum(v) THEN v ELSE Frac(ParseFloat(v.s).n, ParseFloat(v.s).f)

\* C25: in an int or float column of an object list, every value the
\* classifier counted as numeric, numeric strings included, is a non-null
\* cell of the type of the column that holds its number; the values that
\* are nil or not numeric are null cells.
C25_NumericCellsCoerced ==
  \A c \in Calls :
    DecodedFlatObjects(c) =>
      \A i \in 1..Len(CallTable(c).Fields) :
        LET field == CallTable(c).Fields[i]
            raw == ObjectColumn(c, field.Name)
        IN field.Type \in {"int", "float"} =>
             \A j \in 1..Len(raw) :
               IF CountsAsNumeric(raw[j])
               THEN field.Values[j] = (IF field.Type = "int" THEN IntCell(NumberOf(raw[j]).n)
                                       ELSE NumberOf(raw[j]))
               ELSE field.Values[j] = Null


\* C26: in the table of an object list, a column under a time-indicator
\* name whose values classify as int or float is a time column as soon as
\* one value normalizes as a timestamp, with a null cell for every value
\* that does not; when no value normalizes it is the int or float column of
\* the classification, holding the numbers.
C26_TimeNamedNumericColumn ==
  \A c \in Calls :
    DecodedFlatObjects(c) =>
      \A i \in 1..Len(CallTable(c).Fields) :
        LET field == CallTable(c).Fields[i]
            raw == ObjectColumn(c, field.Name)
            type == detectFieldType(raw)
        IN (IsTimeName(field.Name) /\ type \in {"int", "float"}) =>
             IF \E j \in 1..Len(raw) : Normalizes(raw[j])
             THEN /\ field.Type = "time"
                  /\ \A j \in 1..Len(raw) :
                       field.Values[j] = (IF Normalizes(raw[j]) THEN parseTimeValue(raw[j])
                                          ELSE Null)
             ELSE /\ field.Type = type
                  /\ \A j \in 1..Len(raw) :
                       IsNum(raw[j]) =>
                         field.Values[j] = (IF type = "int" THEN IntCell(raw[j].n) ELSE raw[j])

\* One call has decoded the seen values 1700000000, 5 and "12" into a time
\* column with two null cells, the other the seen values 5 and 12 into an
\* int column.
C26_Witness ==
  \E c, d \in Calls :
    /\ cpc[c] = "done" /\ response[c] = DocSeenPartial
    /\ SeenField(c) = Field("seen", "time", <<Time(1700000, 0), Null, Null>>)
    /\ cpc[d] = "done" /\ response[d] = DocSeenSmall
    /\ SeenField(d) = Field("seen", "int", <<IntCell(5), IntCell(12)>>)


\* The call decoded an array whose first element has the node shape.
IsNodeListDoc(doc) ==
  LET result == responseResult(doc)
  IN IsList(result) /\ Len(result.l) > 0 /\ IsList(result.l[1]) /\ isNodeList(result.l)

\* C27: the table of a node list has exactly the columns form, value, iden
\* and tags, with one row per element of the array; row i holds the form,
\* the display string of the value and the iden of element i.
C27_NodeListRows ==
  \A c \in Calls :
    (cpc[c] = "done" /\ IsNodeListDoc(response[c])) =>
      LET items == responseResult(response[c]).l
          fields == CallTable(c).Fields
      IN /\ [i \in 1..Len(fields) |-> fields[i].Name] = <<"form", "value", "iden", "tags">>
         /\ \A i \in 1..4 : Len(fields[i].Values) = Len(items)
         /\ \A i \in 1..Len(items) :
              (IsNodeData(items[i]) /\ HasNodeDef(items[i])) =>
                /\ fields[1].Values[i] = Str(items[i].l[1].l[1].s)
                /\ fields[2].Values[i] = Str(Sprintf(items[i].l[1].l[2]))
                /\ fields[3].Values[i] = Str(SubString(items[i].l[2], "iden"))


\* The RefIDs of the request.
RefIDs == {queries[j].RefID : j \in 1..Len(queries)}
\* The answer of the remote store to query j, which sent a request.
AnswerOf(j) == answers[Cardinality({k \in sent : k <= j})]
\* The frames the call query j yields when run alone on the document doc.
CallFramesAlone(j, doc) ==
  {<<frame>> : frame \in parseStormCallResult(
                  responseResult(doc),
                  flattenOf(injectTimeRange(ModelOf(j).qm, QueryTimeRange).Opts),
                  queries[j].RefID)}
\* The response of query j is the one of query j run alone.
AsRunAlone(j) ==
  IF ~ModelOf(j).ok THEN ResponseOf(j) = DataResponse("unmarshal query", << >>)
  ELSE IF EmptyText(j) THEN ResponseOf(j) = DataResponse("storm query is required", << >>)
  ELSE IF ModelOf(j).qm.UseCall
  THEN IF AnswerOf(j).status # 200
       THEN ResponseOf(j) = DataResponse("storm call failed with status: 500", << >>)
       ELSE IF IsNull(AnswerOf(j).payload)
       THEN ResponseOf(j) = DataResponse("decode response: json: cannot unmarshal", << >>)
       ELSE /\ ResponseOf(j).Error = ""
            /\ ResponseOf(j).Frames \in CallFramesAlone(j, AnswerOf(j).payload)
  ELSE IF ResponseOf(j).Error # "" THEN ResponseOf(j).Frames = << >>
  ELSE /\ Len(ResponseOf(j).Frames) = 1
       /\ ResponseOf(j).Frames[1].RefID = queries[j].RefID
       /\ AnswerOf(j).status = 200

\* C28: QueryData returns one response per distinct RefID of the request;
\* a step of a query changes the response of no other RefID, every query
\* starts with the decoder state of a query run alone, and the response
\* held for a query, failed or not, is the one this query yields alone on
\* the answer it got, whatever the other queries of the request did.
C28_QueriesIndependent ==
  /\ [](qpc = "returned" => DOMAIN Responses = RefIDs)
  /\ [](qpc = "loop" => (nodes = << >> /\ allPropKeys = {} /\ frames = << >> /\ err = ""))
  /\ [](qpc \in {"loop", "run", "returned"} =>
          \A j \in Processed :
            LastOfRefID(j) => (queries[j].RefID \in DOMAIN Responses /\ AsRunAlone(j)))
  /\ [][\A r \in DOMAIN Responses :
          (qi <= Len(queries) /\ r # queries[qi].RefID) =>
            (r \in DOMAIN Responses' /\ Responses'[r] = Responses[r])]_vars

\* QueryData has returned for a request whose first query returned a node
\* table and whose second query failed with an error of the remote store:
\* the response of the first still holds its table.
C28_Witness ==
  /\ qpc = "returned"
  /\ Len(queries) = 2 /\ queries[1].RefID = "A" /\ queries[2].RefID = "B"
  /\ sent = {1, 2}
  /\ Responses["B"].Error # "" /\ Responses["B"].Frames = << >>
  /\ Responses["A"].Error = ""
  /\ Len(Responses["A"].Frames) = 1 /\ Len(Responses["A"].Frames[1].Fields) > 0


\* The node table has a time column of the given name.
HasTimeColumn(name) ==
  \E i \in 1..Len(Table.Fields) : Table.Fields[i].Name = name /\ Table.Fields[i].Type = "time"

\* C29: no property is dropped from the node table of a completed stream
\* without a replacement: for every key collected from the props or the
\* reprs of a record, the table has a column with the name of the key or,
\* when the key is a suppressed <base>_repr, the time column <base>.
C29_NoPropertyDropped ==
  (pc = "done" /\ Len(nodes) > 0) =>
    \A k \in allPropKeys :
      \/ HasColumn(k)
      \/ (skipsRepr(k) /\ HasTimeColumn(ReprBase(k)))


\* The call decoded an array whose first element is a mapping.
IsObjectListDoc(doc) ==
  LET result == responseResult(doc)
  IN IsList(result) /\ Len(result.l) > 0 /\ IsMap(result.l[1])

\* C30: the table of an object list has one row per element of the array,
\* elements that are no mappings included: every column has as many cells
\* as the array has elements.
C30_ObjectListRows ==
  \A c \in Calls :
    (cpc[c] = "done" /\ IsObjectListDoc(response[c])) =>
      LET items == responseResult(response[c]).l
          fields == CallTable(c).Fields
      IN /\ Len(fields) > 0
         /\ \A i \in 1..Len(fields) : Len(fields[i].Values) = Len(items)

=============================================================================
